---- MODULE Spec2Model ----
(***************************************************************************)
(* Intent-routing and dispatch core of the AI routing system:              *)
(*   - llmRouterController.routeQuery: credential x model cascade,         *)
(*     JSON extraction and validation of the routing instruction;          *)
(*   - api/query/route.js POST: the endpoint that routes and dispatches;   *)
(*   - databaseController: entity resolution, query translation and the    *)
(*     CRUD operations on the flat record collection.                      *)
(*   - lib/rateLimiter: the per-email request counter of the endpoint.     *)
(*                                                                         *)
(* JavaScript strings are sequences of one-character strings, so that       *)
(* toLowerCase, trim, endsWith and the regular expressions are computed.   *)
(* A completion text is a sequence of lexemes: "{", "}", FENCE, "json",     *)
(* " ", "\n", "w" (a word of prose) and "B" (the member list of a JSON      *)
(* object, whose parsed value is the variable body).                       *)
(***************************************************************************)
EXTENDS Integers, Sequences, FiniteSets, TLC

VARIABLES
    env,          \* process.env: [primary, fallbacks]
    pc,           \* position of the request in POST / routeQuery
    apiKeys,      \* routeQuery: const apiKeys
    ki,           \* routeQuery: key loop index i (1-based)
    mi,           \* routeQuery: position in MODEL_FALLBACK_LIST (1-based)
    inflight,     \* the completion call awaited, <<>> when none
    callLog,      \* history: every completion call issued, in order
    okLog,        \* history: each successful call: its text and its place in callLog
    text,         \* routeQuery: let text
    lastError,    \* routeQuery: let lastError
    body,         \* the object the provider wrote as the "B" lexeme
    routed,       \* outcome of routeQuery: an instruction or a thrown error
    response,     \* the NextResponse the endpoint returned
    toolCalls,    \* history: invocations of getWeather / handleDatabaseOperation
    store,        \* the data_records collection: a set of documents
    nextId,       \* next document id the store assigns
    clock,        \* the store's notion of new Date()
    lastCall,     \* history: the arguments of the last handleDatabaseOperation
    lastQuery,    \* history: the query the last dispatch sent to the store
    dbResult,     \* outcome of the last handleDatabaseOperation
    prevStore,    \* history: the collection before the last handleDatabaseOperation
    born,         \* history: id -> entity and createdAt the document was created with
    tasks,        \* the calls of modifyRecord / deleteRecord that run concurrently
    nowMs,        \* Date.now() in milliseconds
    cache,        \* rateLimitCache: its entries, least recently used first
    rateLimitResult, \* what the last checkRateLimit returned
    windows,      \* history: email -> the rate-limit window its calls are counted in
    served        \* history: the number of checkRateLimit calls

vars == <<env, pc, apiKeys, ki, mi, inflight, callLog, okLog, text, lastError,
          body, routed, response, toolCalls, store, nextId, clock, lastCall,
          lastQuery, dbResult, prevStore, born, tasks, nowMs, cache,
          rateLimitResult, windows, served>>

routerVars == <<apiKeys, ki, mi, inflight, callLog, okLog, text, lastError>>
\* what outlives the routing of a request: the collection, the concurrent
\* controller calls and the rate limiter
storeVars ==
    <<store, nextId, clock, lastCall, lastQuery, dbResult, prevStore, born,
      tasks, nowMs, cache, rateLimitResult, windows, served>>

limitVars == <<nowMs, cache, rateLimitResult, windows, served>>

----------------------------------------------------------------------------
(* JavaScript values *)

Undef == [t |-> "undefined"]
Null == [t |-> "null"]
Bool(b) == [t |-> "boolean", v |-> b]
Num(n) == [t |-> "number", v |-> n]
Str(s) == [t |-> "string", v |-> s]
Obj(o) == [t |-> "object", v |-> o]
Date(n) == [t |-> "date", v |-> n]

\* ToBoolean, as used by !x, x || y and if (x)
Truthy(x) ==
    CASE x.t = "undefined" -> FALSE
      [] x.t = "null" -> FALSE
      [] x.t = "boolean" -> x.v
      [] x.t = "number" -> x.v # 0
      [] x.t = "string" -> x.v # <<>>
      [] OTHER -> TRUE

\* x || y
OrElse(x, y) == IF Truthy(x) THEN x ELSE y

\* obj.name where the receiver may be a primitive: undefined unless an object
\* that has the property
Prop(x, name) ==
    IF x.t = "object" /\ name \in DOMAIN x.v THEN x.v[name] ELSE Undef

----------------------------------------------------------------------------
(* String primitives *)

UpperChars == <<"A", "B", "C", "D", "E", "F", "G", "H", "I", "J", "K", "L", "M",
                "N", "O", "P", "Q", "R", "S", "T", "U", "V", "W", "X", "Y", "Z">>
LowerChars == <<"a", "b", "c", "d", "e", "f", "g", "h", "i", "j", "k", "l", "m",
                "n", "o", "p", "q", "r", "s", "t", "u", "v", "w", "x", "y", "z">>

toLowerChar(c) ==
    IF \E i \in DOMAIN UpperChars : UpperChars[i] = c
    THEN LowerChars[CHOOSE i \in DOMAIN UpperChars : UpperChars[i] = c]
    ELSE c

toLowerCase(s) == [i \in 1..Len(s) |-> toLowerChar(s[i])]

isSpace(c) == c \in {" ", "\n", "\t"}

SetMin(S) == CHOOSE x \in S : \A y \in S : x <= y
SetMax(S) == CHOOSE x \in S : \A y \in S : x >= y

trim(s) ==
    LET solid == {i \in 1..Len(s) : ~isSpace(s[i])}
    IN  IF solid = {} THEN <<>> ELSE SubSeq(s, SetMin(solid), SetMax(solid))

endsWith(s, c) == Len(s) > 0 /\ s[Len(s)] = c

\* s.includes(sub)
includes(s, sub) ==
    \E i \in 1..(Len(s) - Len(sub) + 1) : SubSeq(s, i, i + Len(sub) - 1) = sub

\* s.split(c) for a one-character separator
RECURSIVE split(_, _)
split(s, c) ==
    LET hits == {i \in 1..Len(s) : s[i] = c}
    IN  IF hits = {} THEN <<s>>
        ELSE <<SubSeq(s, 1, SetMin(hits) - 1)>>
                 \o split(SubSeq(s, SetMin(hits) + 1, Len(s)), c)

\* insertion into a JavaScript Set kept as the sequence of its insertion order
\* a list in place of the Set: every key is appended
setAdd_keepsDuplicates(seq, x) == Append(seq, x)

setAdd(seq, x) ==
    IF \E i \in 1..Len(seq) : seq[i] = x THEN seq ELSE Append(seq, x)

RECURSIVE setAddAll(_, _)
setAddAll(seq, xs) ==
    IF xs = <<>> THEN seq ELSE setAddAll(setAdd(seq, Head(xs)), Tail(xs))

SelectNonEmpty(xs) == SelectSeq(xs, LAMBDA k : k # <<>>)

\* the string literals of the controllers and of the router, as characters
\* (the missingInfo texts as their words)
Literal ==
    [ entity |-> <<"e", "n", "t", "i", "t", "y">>,
      createdAt |-> <<"c", "r", "e", "a", "t", "e", "d", "A", "t">>,
      updatedAt |-> <<"u", "p", "d", "a", "t", "e", "d", "A", "t">>,
      joinDate |-> <<"j", "o", "i", "n", "D", "a", "t", "e">>,
      joinedLastMonth |->  <<"j", "o", "i", "n", "e", "d", "L", "a", "s", "t", "M", "o", "n", "t", "h">>,
      records |-> <<"r", "e", "c", "o", "r", "d", "s">>,
      record |-> <<"r", "e", "c", "o", "r", "d">>,
      databases |-> <<"d", "a", "t", "a", "b", "a", "s", "e", "s">>,
      all |-> <<"a", "l", "l">>,
      everything |-> <<"e", "v", "e", "r", "y", "t", "h", "i", "n", "g">>,
      data |-> <<"d", "a", "t", "a">>,
      min |-> <<"m", "i", "n">>,
      max |-> <<"m", "a", "x">>,
      weather |-> <<"w", "e", "a", "t", "h", "e", "r">>,
      database |-> <<"d", "a", "t", "a", "b", "a", "s", "e">>,
      Unknown |-> <<"U", "n", "k", "n", "o", "w", "n">>,
      add |-> <<"a", "d", "d">>,
      create |-> <<"c", "r", "e", "a", "t", "e">>,
      modify |-> <<"m", "o", "d", "i", "f", "y">>,
      update |-> <<"u", "p", "d", "a", "t", "e">>,
      edit |-> <<"e", "d", "i", "t">>,
      delete |-> <<"d", "e", "l", "e", "t", "e">>,
      remove |-> <<"r", "e", "m", "o", "v", "e">>,
      display |-> <<"d", "i", "s", "p", "l", "a", "y">>,
      list |-> <<"l", "i", "s", "t">>,
      show |-> <<"s", "h", "o", "w">>,
      count |-> <<"c", "o", "u", "n", "t">>,
      missingTool |->  <<"Unable to determine what you need.", " ", "Please be more specific.">>,
      missingAction |->  <<"Unable to determine the action.", " ", "Please specify what you want to do.">>,
      missingLocation |-> <<"location", "/", "city", " ", "name">> ]

----------------------------------------------------------------------------
(* llmRouterController: credentials and models *)

\* keys of the Set built from GEMINI_API_KEY (comma list) and then the
\* GEMINI_API_KEY_<n> variables in environment order; empty when none
getAvailableApiKeys(e) ==
    LET fromPrimary ==
            IF Truthy(e.primary)
            THEN LET parts == split(e.primary.v, ",")
                 IN  SelectNonEmpty([i \in 1..Len(parts) |-> trim(parts[i])])
            ELSE <<>>
        fromFallback ==
            SelectNonEmpty([i \in 1..Len(e.fallbacks) |-> trim(e.fallbacks[i])])
    IN  setAddAll(setAddAll(<<>>, fromPrimary), fromFallback)

MODEL_FALLBACK_LIST ==
    <<"gemini-2.5-flash-lite", "gemini-2.5-flash", "gemini-2.0-flash">>

\* what generateContent can throw: an HTTP status (0 when the error carries
\* none) and what its message mentions
ProviderErrors ==
    { [status |-> 429, mentions |-> "none"],
      [status |-> 0, mentions |-> "quota"],
      [status |-> 404, mentions |-> "none"],
      [status |-> 0, mentions |-> "not found"],
      [status |-> 500, mentions |-> "none"],
      [status |-> 0, mentions |-> "network"] }

\* the error tryModel throws for a provider error
tryModelError(err, modelName) ==
    IF err.status = 429 \/ err.mentions \in {"429", "quota"}
    THEN [kind |-> "QUOTA_EXCEEDED", model |-> modelName, raw |-> err]
    ELSE IF err.status = 404 \/ err.mentions \in {"404", "not found"}
    THEN [kind |-> "MODEL_NOT_FOUND", model |-> modelName, raw |-> err]
    ELSE [kind |-> "OTHER", model |-> modelName, raw |-> err]

NoError == [kind |-> "none"]

----------------------------------------------------------------------------
(* llmRouterController: extraction of the JSON object from the completion *)

\* the Markdown code-fence marker, three grave accents
FENCE == "[fence]"

\* number of consecutive elements of s, from index i on, that are in C
RunLen(s, i, C) ==
    LET stop == {j \in i..Len(s) : s[j] \notin C}
    IN  IF stop = {} THEN Len(s) - i + 1 ELSE SetMin(stop) - i

\* length of the match of /FENCE json\s * / at the head of s (0: no match): the
\* fence, "json", one whitespace character, then at least one space
matchJsonFence(s) ==
    IF Len(s) >= 4 /\ s[1] = FENCE /\ s[2] = "json" /\ isSpace(s[3]) /\ s[4] = " "
    THEN 3 + RunLen(s, 4, {" "})
    ELSE 0

\* length of the match of /FENCE\s*/ at the head of s (0: no match)
matchFence(s) ==
    IF Len(s) >= 1 /\ s[1] = FENCE
    THEN 1 + RunLen(s, 2, {" ", "\n", "\t"})
    ELSE 0

\* the first replace of line 238, of the json-tagged fence
RECURSIVE stripJsonFences(_)
stripJsonFences(s) ==
    IF s = <<>> THEN <<>>
    ELSE IF matchJsonFence(s) > 0
    THEN stripJsonFences(SubSeq(s, matchJsonFence(s) + 1, Len(s)))
    ELSE <<Head(s)>> \o stripJsonFences(Tail(s))

\* the second replace of line 238, of every remaining fence
RECURSIVE stripFences(_)
stripFences(s) ==
    IF s = <<>> THEN <<>>
    ELSE IF matchFence(s) > 0
    THEN stripFences(SubSeq(s, matchFence(s) + 1, Len(s)))
    ELSE <<Head(s)>> \o stripFences(Tail(s))

\* let jsonText = text.trim(); jsonText = jsonText.replace(..).replace(..)
jsonTextOf(t) == stripFences(stripJsonFences(trim(t)))

\* a match that ends at the first "}" after the first "{"
jsonMatch_lazy(s) ==
    LET opens == {i \in 1..Len(s) : s[i] = "{"}
        closes == {i \in 1..Len(s) : s[i] = "}" /\ opens # {} /\ i > SetMin(opens)}
    IN  IF opens = {} \/ closes = {}
        THEN <<>>
        ELSE SubSeq(s, SetMin(opens), SetMin(closes))

\* a match that only succeeds at the start of the text
jsonMatch_anchored(s) ==
    LET closes == {i \in 1..Len(s) : s[i] = "}"}
    IN  IF s = <<>> \/ s[1] # "{" \/ closes = {}
        THEN <<>>
        ELSE SubSeq(s, 1, SetMax(closes))

\* jsonText.match(/\{[\s\S]*\}/): from the first "{" to the last "}" after it;
\* <<>> when there is no match
jsonMatch(s) ==
    LET opens == {i \in 1..Len(s) : s[i] = "{"}
        closes == {i \in 1..Len(s) : s[i] = "}"}
    IN  IF opens = {} \/ closes = {} \/ SetMax(closes) < SetMin(opens)
        THEN <<>>
        ELSE SubSeq(s, SetMin(opens), SetMax(closes))

\* the non-whitespace lexemes between the outer braces of a match
SpanMembers(span) ==
    SelectSeq(SubSeq(span, 2, Len(span) - 1), LAMBDA c : ~isSpace(c))

\* whether JSON.parse accepts the span: braces around nothing or around one
\* member list
jsonValid(span) == SpanMembers(span) \in {<<>>, <<"B">>}

\* the instruction fields the router and the endpoint read
EmptyObject ==
    [tool |-> Undef, action |-> Undef, parameters |-> Undef,
     insufficientInfo |-> Undef, missingInfo |-> Undef, guidedResponse |-> Undef]

\* JSON.parse(span) for a valid span; b is the value of the member list
jsonParse(span, b) == IF SpanMembers(span) = <<"B">> THEN b ELSE EmptyObject

ERR_NO_KEY == "No GEMINI_API_KEY found in environment variables"
ERR_EXHAUSTED == "All keys and models failed"
ERR_NO_JSON == "Invalid response format from LLM - no JSON found"
ERR_PARSE == "Failed to parse LLM response as JSON"
ERR_TYPE == "TypeError"

Thrown(msg, cause) == [kind |-> "error", message |-> msg, cause |-> cause]
Returned(instr) == [kind |-> "instr", instr |-> instr]
NotRouted == [kind |-> "none"]

\* lines 233-253: the instruction parsed from the completion text, or the error
extract(t, b) ==
    LET span == jsonMatch(jsonTextOf(t))
    IN  IF span = <<>> THEN Thrown(ERR_NO_JSON, NoError)
        ELSE IF ~jsonValid(span) THEN Thrown(ERR_PARSE, NoError)
        ELSE Returned(jsonParse(span, b))

----------------------------------------------------------------------------
(* llmRouterController: validation of the parsed instruction *)



EmptyParams ==
    [location |-> Undef, city |-> Undef, entity |-> Undef,
     filters |-> Undef, data |-> Undef]

EmptyMap == Obj(<<>>)

Insufficient(r, msg) ==
    [r EXCEPT !.insufficientInfo = Bool(TRUE), !.missingInfo = Str(msg)]

\* lines 289-297; assigning a property on a primitive parameters value is
\* ignored in sloppy mode and a TypeError in strict mode
ensureFiltersAndData(r, strictMode) ==
    LET p == r.parameters
    IN  IF p.t # "object"
        THEN IF strictMode /\ (~Truthy(Prop(p, "filters")) \/ ~Truthy(Prop(p, "data")))
             THEN Thrown(ERR_TYPE, NoError)
             ELSE Returned(r)
        ELSE Returned([r EXCEPT !.parameters = Obj(
                 [p.v EXCEPT
                    !.filters = IF Truthy(p.v.filters) THEN @ ELSE EmptyMap,
                    !.data = IF Truthy(p.v.data) THEN @ ELSE EmptyMap])])

\* validation without the check of the action
validate_noActionCheck(r, strictMode) ==
    IF r.insufficientInfo = Bool(TRUE) THEN Returned(r)
    ELSE IF ~Truthy(r.tool)
            \/ r.tool \notin {Str(Literal.weather), Str(Literal.database)}
    THEN Returned(Insufficient(r, Literal.missingTool))
    ELSE LET r1 == IF Truthy(r.parameters) THEN r
                   ELSE [r EXCEPT !.parameters = Obj(EmptyParams)]
         IN  IF r1.tool = Str(Literal.weather)
             THEN IF ~Truthy(Prop(r1.parameters, "location"))
                     /\ ~Truthy(Prop(r1.parameters, "city"))
                  THEN Returned(Insufficient(r1, Literal.missingLocation))
                  ELSE Returned(r1)
             ELSE ensureFiltersAndData(r1, strictMode)

\* validation without the check of the weather location
validate_noLocationCheck(r, strictMode) ==
    IF r.insufficientInfo = Bool(TRUE) THEN Returned(r)
    ELSE IF ~Truthy(r.tool)
            \/ r.tool \notin {Str(Literal.weather), Str(Literal.database)}
    THEN Returned(Insufficient(r, Literal.missingTool))
    ELSE IF ~Truthy(r.action) THEN Returned(Insufficient(r, Literal.missingAction))
    ELSE LET r1 == IF Truthy(r.parameters) THEN r
                   ELSE [r EXCEPT !.parameters = Obj(EmptyParams)]
         IN  IF r1.tool = Str(Literal.weather)
             THEN Returned(r1)
             ELSE ensureFiltersAndData(r1, strictMode)

\* lines 255-299
validate(r, strictMode) ==
    IF r.insufficientInfo = Bool(TRUE) THEN Returned(r)
    ELSE IF ~Truthy(r.tool) \/ r.tool \notin {Str(Literal.weather), Str(Literal.database)}
    THEN Returned(Insufficient(r, Literal.missingTool))
    ELSE IF ~Truthy(r.action) THEN Returned(Insufficient(r, Literal.missingAction))
    ELSE LET r1 == IF Truthy(r.parameters) THEN r
                   ELSE [r EXCEPT !.parameters = Obj(EmptyParams)]
         IN  IF r1.tool = Str(Literal.weather)
             THEN IF ~Truthy(Prop(r1.parameters, "location"))
                     /\ ~Truthy(Prop(r1.parameters, "city"))
                  THEN Returned(Insufficient(r1, Literal.missingLocation))
                  ELSE Returned(r1)
             ELSE ensureFiltersAndData(r1, strictMode)

----------------------------------------------------------------------------
(* databaseController: entity resolution *)


seqIncludes(seq, x) == \E i \in 1..Len(seq) : seq[i] = x

\* normalizeEntity with the plural s appended whatever the last letter
normalizeEntity_alwaysAppends(entity) ==
    IF ~Truthy(entity) THEN Null
    ELSE LET normalized == trim(toLowerCase(entity.v))
         IN  IF endsWith(normalized, "y")
             THEN Str(SubSeq(normalized, 1, Len(normalized) - 1) \o <<"i", "e", "s">>)
             ELSE Str(normalized \o <<"s">>)

normalizeEntity(entity) ==
    IF ~Truthy(entity) THEN Null
    ELSE LET normalized == trim(toLowerCase(entity.v))
         IN  IF endsWith(normalized, "y")
             THEN Str(SubSeq(normalized, 1, Len(normalized) - 1) \o <<"i", "e", "s">>)
             ELSE IF ~endsWith(normalized, "s")
             THEN Str(normalized \o <<"s">>)
             ELSE Str(normalized)

genericEntities ==
    <<Literal.records, Literal.record, Literal.database, Literal.databases,
      Literal.all, Literal.everything, Literal.data>>

\* const isGeneric = !entity || genericEntities.includes(normalized)
\*                   || genericEntities.includes(entity?.toLowerCase())
isGeneric(entity) ==
    \/ ~Truthy(entity)
    \/ seqIncludes(genericEntities, normalizeEntity(entity).v)
    \/ seqIncludes(genericEntities, toLowerCase(entity.v))

----------------------------------------------------------------------------
(* databaseController: query translation *)

\* a filter or data mapping is Obj(pairs), pairs the <<key, value>> entries in
\* Object.keys order
mapKeys(m) == [i \in 1..Len(m.v) |-> m.v[i][1]]
mapGet(m, key) == (m.v[CHOOSE i \in 1..Len(m.v) : m.v[i][1] = key])[2]
mapFun(m) == [k \in {m.v[i][1] : i \in 1..Len(m.v)} |-> mapGet(m, k)]

\* { ...f, ...g }
spread(f, g) ==
    [k \in DOMAIN f \cup DOMAIN g |-> IF k \in DOMAIN g THEN g[k] ELSE f[k]]

Where(field, op, value) == <<field, op, value>>
NoQuery == [issued |-> FALSE]
NoCall == [action |-> Undef]
Query(preds, limit) == [issued |-> TRUE, preds |-> preds, limit |-> limit]
NoLimit == 0

\* displayRecords / modifyRecord / deleteRecord: the entity predicate
entityPreds(entity) ==
    IF Truthy(entity) /\ ~isGeneric(entity)
    THEN <<Where(Literal.entity, "==", normalizeEntity(entity))>>
    ELSE <<>>

\* Object.keys(filters) with the key entity kept
filterKeys_withEntity(filters) ==
    IF Truthy(filters) THEN mapKeys(filters) ELSE <<>>

\* filters ? Object.keys(filters).filter(key => key !== 'entity') : []
filterKeys(filters) ==
    IF Truthy(filters)
    THEN SelectSeq(mapKeys(filters), LAMBDA key : key # Literal.entity)
    ELSE <<>>

firstKeyPreds(filters) ==
    IF Len(filterKeys(filters)) > 0
    THEN <<Where(filterKeys(filters)[1], "==",
                 mapGet(filters, filterKeys(filters)[1]))>>
    ELSE <<>>

\* modifyRecord lines 212-229
modifyQuery(entity, filters) ==
    Query(entityPreds(entity) \o firstKeyPreds(filters), 1)

\* a delete query with a predicate for every filter key
deleteQuery_everyKey(entity, filters) ==
    Query(entityPreds(entity)
            \o [i \in 1..Len(filterKeys(filters)) |->
                   Where(filterKeys(filters)[i], "==",
                         mapGet(filters, filterKeys(filters)[i]))],
          1)

\* deleteRecord lines 265-282
deleteQuery(entity, filters) ==
    Query(entityPreds(entity) \o firstKeyPreds(filters), 1)

\* key.replace(/min|max/gi, '')
RECURSIVE stripMinMax(_)
stripMinMax(key) ==
    IF key = <<>> THEN <<>>
    ELSE IF Len(key) >= 3 /\ toLowerCase(SubSeq(key, 1, 3)) \in {Literal.min, Literal.max}
    THEN stripMinMax(SubSeq(key, 4, Len(key)))
    ELSE <<Head(key)>> \o stripMinMax(Tail(key))

\* const lastMonth = new Date(); lastMonth.setMonth(lastMonth.getMonth() - 1)
lastMonth(now) == Date(now - 1)

\* the predicate of one filter key with a field name that keeps its case
displayPred_caseKept(filters, key, now) ==
    IF includes(toLowerCase(key), Literal.min) \/ includes(toLowerCase(key), Literal.max)
    THEN IF includes(toLowerCase(key), Literal.min)
         THEN Where(stripMinMax(key), ">=", mapGet(filters, key))
         ELSE Where(stripMinMax(key), "<=", mapGet(filters, key))
    ELSE IF key = Literal.joinedLastMonth
    THEN Where(Literal.joinDate, ">=", lastMonth(now))
    ELSE Where(key, "==", mapGet(filters, key))

\* displayRecords lines 326-341: the predicate of one filter key
displayPred(filters, key, now) ==
    IF includes(toLowerCase(key), Literal.min) \/ includes(toLowerCase(key), Literal.max)
    THEN IF includes(toLowerCase(key), Literal.min)
         THEN Where(toLowerCase(stripMinMax(key)), ">=", mapGet(filters, key))
         ELSE Where(toLowerCase(stripMinMax(key)), "<=", mapGet(filters, key))
    ELSE IF key = Literal.joinedLastMonth
    THEN Where(Literal.joinDate, ">=", lastMonth(now))
    ELSE Where(key, "==", mapGet(filters, key))

displayPreds(filters, now) ==
    [i \in 1..Len(filterKeys(filters)) |->
        displayPred(filters, filterKeys(filters)[i], now)]

DISPLAY_LIMIT == 50

\* displayRecords lines 314-344
displayQuery(entity, filters, limit, now) ==
    Query(entityPreds(entity) \o displayPreds(filters, now), limit)

\* countRecords lines 371-383
countQuery(entity, filters) ==
    Query((IF Truthy(entity)
           THEN <<Where(Literal.entity, "==", normalizeEntity(entity))>>
           ELSE <<>>)
          \o [i \in 1..Len(filterKeys(filters)) |->
                 Where(filterKeys(filters)[i], "==",
                       mapGet(filters, filterKeys(filters)[i]))],
          NoLimit)

----------------------------------------------------------------------------
(* The store: Firestore collection data_records *)

\* a document is [id, f], f the function from field name to value

jsEq(a, b) == a.t = b.t /\ (a.t \in {"undefined", "null"} \/ a.v = b.v)

\* whether a document satisfies one where() clause
satisfies(d, w) ==
    /\ w[1] \in DOMAIN d.f
    /\ CASE w[2] = "==" -> jsEq(d.f[w[1]], w[3])
         [] w[2] = ">=" -> /\ d.f[w[1]].t = w[3].t
                           /\ w[3].t \in {"number", "date"}
                           /\ d.f[w[1]].v >= w[3].v
         [] w[2] = "<=" -> /\ d.f[w[1]].t = w[3].t
                           /\ w[3].t \in {"number", "date"}
                           /\ d.f[w[1]].v <= w[3].v

\* the documents a query selects before its limit is applied
matching(docs, q) ==
    {d \in docs : \A i \in 1..Len(q.preds) : satisfies(d, q.preds[i])}

\* the snapshots query.limit(n).get() can return: any n of the matching
\* documents (document ids are random, so is the order), all when fewer
snapshots(docs, q) ==
    LET found == matching(docs, q)
    IN  IF q.limit = NoLimit \/ Cardinality(found) <= q.limit
        THEN {found}
        ELSE {S \in SUBSET found : Cardinality(S) = q.limit}

\* what the store or the driver can do to one operation
StoreFaults ==
    {"none", "not-ready", "unauthenticated", "failed-precondition", "unavailable"}

Ok(message, name, data) ==
    [kind |-> "ok", message |-> message, name |-> name, data |-> data]
Failure(message, detail) ==
    [kind |-> "error", message |-> message, detail |-> detail]
NoResult == [kind |-> "none"]


\* the catch blocks of addRecord, modifyRecord, deleteRecord, displayRecords
\* (withIndex tells whether the block has the failed-precondition branch)
rethrow(fault, withIndex, prefix) ==
    IF fault = "unauthenticated" THEN Failure("Firebase authentication failed.", "none")
    ELSE IF fault = "failed-precondition" /\ withIndex
    THEN Failure("Query requires a composite index.", "none")
    ELSE Failure(prefix, fault)

\* the end of one controller call: the collection, the query sent and the result
finish(docs, nid, q, r) ==
    /\ store' = docs
    /\ nextId' = nid
    /\ lastQuery' = q
    /\ dbResult' = r
    /\ tasks' = tasks
    /\ UNCHANGED limitVars
    /\ prevStore' = store
    /\ born' = [id \in DOMAIN born \cup {d.id : d \in docs} |->
                  IF id \in DOMAIN born THEN born[id]
                  ELSE LET d == CHOOSE x \in docs : x.id = id
                       IN  [entity |-> d.f[Literal.entity],
                            createdAt |-> d.f[Literal.createdAt]]]

\* { id: doc.id, ...doc.data() }
withId(d) == spread((<<"i", "d">> :> Num(d.id)), d.f)

\* addRecord with the payload check reduced to !data
addRecord_emptyPayloadAccepted(entity, data, fault) ==
    IF fault = "not-ready"
    THEN finish(store, nextId, NoQuery, rethrow(fault, FALSE, "Failed to add record"))
    ELSE IF ~Truthy(data)
    THEN finish(store, nextId, NoQuery,
                Failure("Failed to add record", "To add a new, I need more details."))
    ELSE IF fault # "none"
    THEN finish(store, nextId, NoQuery, rethrow(fault, FALSE, "Failed to add record"))
    ELSE LET doc == [id |-> nextId,
                     f |-> spread(spread((Literal.entity :> normalizeEntity(entity)),
                                         mapFun(data)),
                                  (Literal.createdAt :> Date(clock)
                                     @@ Literal.updatedAt :> Date(clock)))]
         IN  finish(store \cup {doc}, nextId + 1, NoQuery,
                    Ok("Successfully added a new", OrElse(entity, Str(Literal.record)),
                       {spread(spread((<<"i", "d">> :> Num(nextId)), mapFun(data)),
                               (Literal.entity :> normalizeEntity(entity)))}))

addRecord(entity, data, fault) ==
    IF fault = "not-ready"
    THEN finish(store, nextId, NoQuery, rethrow(fault, FALSE, "Failed to add record"))
    ELSE IF ~Truthy(data) \/ Len(data.v) = 0
    THEN finish(store, nextId, NoQuery,
                Failure("Failed to add record", "To add a new, I need more details."))
    ELSE IF fault # "none"
    THEN finish(store, nextId, NoQuery, rethrow(fault, FALSE, "Failed to add record"))
    ELSE LET doc == [id |-> nextId,
                     f |-> spread(spread((Literal.entity :> normalizeEntity(entity)),
                                         mapFun(data)),
                                  (Literal.createdAt :> Date(clock)
                                     @@ Literal.updatedAt :> Date(clock)))]
         IN  finish(store \cup {doc}, nextId + 1, NoQuery,
                    Ok("Successfully added a new", OrElse(entity, Str(Literal.record)),
                       {spread(spread((<<"i", "d">> :> Num(nextId)), mapFun(data)),
                               (Literal.entity :> normalizeEntity(entity)))}))

modifyRecord(entity, filters, updateData, fault) ==
    IF fault = "not-ready"
    THEN finish(store, nextId, NoQuery,
                rethrow(fault, TRUE, "Failed to modify record"))
    ELSE IF ~Truthy(updateData) \/ Len(updateData.v) = 0
    THEN finish(store, nextId, NoQuery,
                Ok("No update data provided.", Null, {}))
    ELSE LET query == modifyQuery(entity, filters)
         IN  IF fault # "none"
             THEN finish(store, nextId, query,
                         rethrow(fault, TRUE, "Failed to modify record"))
             ELSE \E snap \in snapshots(store, query) :
                    IF snap = {}
                    THEN finish(store, nextId, query,
                                Ok("No found matching criteria.",
                                   OrElse(entity, Str(Literal.records)), {}))
                    ELSE \E doc \in snap :
                           finish((store \ {doc}) \cup
                                    {[doc EXCEPT !.f =
                                        spread(spread(@, mapFun(updateData)),
                                               (Literal.updatedAt :> Date(clock)))]},
                                  nextId, query,
                                  Ok("Successfully updated the",
                                     OrElse(entity, Str(Literal.record)),
                                     {spread(withId(doc), mapFun(updateData))}))

\* a delete that reports success whether or not a document was found
deleteRecord_alwaysSucceeds(entity, filters, fault) ==
    IF fault # "none"
    THEN finish(store, nextId, NoQuery,
                rethrow(fault, TRUE, "Failed to delete record"))
    ELSE LET query == deleteQuery(entity, filters)
         IN  \E snap \in snapshots(store, query) :
                finish(store \ snap, nextId, query,
                       Ok("Successfully deleted the",
                          OrElse(entity, Str(Literal.record)), {}))

deleteRecord(entity, filters, fault) ==
    IF fault = "not-ready"
    THEN finish(store, nextId, NoQuery,
                rethrow(fault, TRUE, "Failed to delete record"))
    ELSE LET query == deleteQuery(entity, filters)
         IN  IF fault # "none"
             THEN finish(store, nextId, query,
                         rethrow(fault, TRUE, "Failed to delete record"))
             ELSE \E snap \in snapshots(store, query) :
                    IF snap = {}
                    THEN finish(store, nextId, query,
                                Ok("No found matching criteria.",
                                   OrElse(entity, Str(Literal.records)), {}))
                    ELSE \E doc \in snap :
                           finish(store \ {doc}, nextId, query,
                                  Ok("Successfully deleted the",
                                     OrElse(entity, Str(Literal.record)), {}))

displayRecords(entity, filters, limit, fault) ==
    IF fault = "not-ready"
    THEN finish(store, nextId, NoQuery,
                rethrow(fault, TRUE, "Failed to display records"))
    ELSE LET query == displayQuery(entity, filters, limit, clock)
         IN  IF fault # "none"
             THEN finish(store, nextId, query,
                         rethrow(fault, TRUE, "Failed to display records"))
             ELSE \E snap \in snapshots(store, query) :
                    finish(store, nextId, query,
                           Ok(IF snap = {} THEN "No records found"
                                           ELSE "Found records",
                              IF Truthy(entity) /\ ~isGeneric(entity)
                              THEN entity ELSE Null,
                              {withId(d) : d \in snap}))

countRecords(entity, filters, fault) ==
    IF fault = "not-ready"
    THEN finish(store, nextId, NoQuery, Failure("Failed to count records", fault))
    ELSE LET query == countQuery(entity, filters)
         IN  IF fault # "none"
             THEN finish(store, nextId, query,
                         Failure("Failed to count records", fault))
             ELSE finish(store, nextId, query,
                         Ok("Count", OrElse(entity, Str(Literal.records)),
                            {Cardinality(matching(store, query))}))


\* const { filters = {}, data = {} } = parameters || {}
paramOr(parameters, name) ==
    IF Prop(parameters, name) = Undef THEN EmptyMap ELSE Prop(parameters, name)

\* the switch of handleDatabaseOperation on the action as written
operationOf_caseSensitive(action) ==
    LET verb == action.v
    IN  CASE verb \in {Literal.add, Literal.create} -> "create"
          [] verb \in {Literal.modify, Literal.update, Literal.edit} -> "update"
          [] verb \in {Literal.delete, Literal.remove} -> "delete"
          [] verb \in {Literal.display, Literal.list, Literal.show} -> "read"
          [] verb = Literal.count -> "count"
          [] OTHER -> "read"

\* the switch of handleDatabaseOperation with deleteRecord as its default
operationOf_defaultDelete(action) ==
    LET verb == toLowerCase(action.v)
    IN  CASE verb \in {Literal.add, Literal.create} -> "create"
          [] verb \in {Literal.modify, Literal.update, Literal.edit} -> "update"
          [] verb \in {Literal.display, Literal.list, Literal.show} -> "read"
          [] verb = Literal.count -> "count"
          [] OTHER -> "delete"

\* the operation the switch of handleDatabaseOperation selects
operationOf(action) ==
    LET verb == toLowerCase(action.v)
    IN  CASE verb \in {Literal.add, Literal.create} -> "create"
          [] verb \in {Literal.modify, Literal.update, Literal.edit} -> "update"
          [] verb \in {Literal.delete, Literal.remove} -> "delete"
          [] verb \in {Literal.display, Literal.list, Literal.show} -> "read"
          [] verb = Literal.count -> "count"
          [] OTHER -> "read"

\* handleDatabaseOperation; an action that is no string has no toLowerCase
handleDatabaseOperation(action, entity, parameters, fault) ==
    /\ clock' = clock + 1
    /\ lastCall' = [action |-> action, entity |-> entity,
                    parameters |-> parameters, fault |-> fault]
    /\ IF action.t # "string"
       THEN finish(store, nextId, NoQuery,
                   Failure("TypeError", "action.toLowerCase is not a function"))
       ELSE LET operation == operationOf(action)
                filters == paramOr(parameters, "filters")
                data == paramOr(parameters, "data")
            IN  CASE operation = "create" -> addRecord(entity, data, fault)
                  [] operation = "update" ->
                       modifyRecord(entity, filters, data, fault)
                  [] operation = "delete" -> deleteRecord(entity, filters, fault)
                  [] operation = "count" -> countRecords(entity, filters, fault)
                  [] OTHER ->
                       displayRecords(entity, filters, DISPLAY_LIMIT, fault)

----------------------------------------------------------------------------
(* lib/rateLimiter.js *)

RATE_LIMIT_WINDOW_MS == 60000
RATE_LIMIT_MAX_REQUESTS == 10

\* new LRUCache({ max: 1000, ... }): the capacity, scaled down; the users are
\* one more than the cache holds
MaxEntries == 2
Emails == 1..(MaxEntries + 1)

NoWindow == [start |-> 0, resetTime |-> -1, allowed |-> 0]

\* the module when loaded: an empty cache; rateLimitResult as for a first call
InitLimiter ==
    /\ nowMs = 0
    /\ cache = <<>>
    /\ rateLimitResult = [allowed |-> TRUE,
                          remaining |-> RATE_LIMIT_MAX_REQUESTS - 1,
                          resetTime |-> RATE_LIMIT_WINDOW_MS]
    /\ windows = [e \in Emails |-> NoWindow]
    /\ served = 0

\* checkRateLimit(email) with a non-empty email. rateLimitCache.get gives the
\* entry unless it is older than the ttl (it is then deleted) and makes it
\* the most recently used; rateLimitCache.set stores it with a fresh ttl and,
\* when the key is new and the cache is full, evicts the least recently used
checkRateLimit(email) ==
    LET hits == {i \in 1..Len(cache) :
                    /\ cache[i].key = email
                    /\ nowMs - cache[i].setAt <= RATE_LIMIT_WINDOW_MS}
        fresh == [count |-> 0, resetTime |-> nowMs + RATE_LIMIT_WINDOW_MS]
        got == IF hits = {} THEN fresh
               ELSE LET e == cache[CHOOSE i \in hits : TRUE]
                    IN  [count |-> e.count, resetTime |-> e.resetTime]
        current == IF nowMs > got.resetTime THEN fresh ELSE got
        count == current.count + 1
        others == SelectSeq(cache, LAMBDA e : e.key # email)
        kept == IF hits = {} /\ Len(others) >= MaxEntries
                THEN Tail(others) ELSE others
        allowed == count <= RATE_LIMIT_MAX_REQUESTS
        inWindow == nowMs <= windows[email].resetTime
    IN  /\ cache' = Append(kept, [key |-> email, count |-> count,
                                  resetTime |-> current.resetTime, setAt |-> nowMs])
        /\ rateLimitResult' =
              [allowed |-> allowed,
               remaining |-> IF RATE_LIMIT_MAX_REQUESTS - count > 0
                             THEN RATE_LIMIT_MAX_REQUESTS - count ELSE 0,
               resetTime |-> current.resetTime]
        /\ windows' =
              [windows EXCEPT ![email] =
                  IF inWindow
                  THEN [@ EXCEPT !.allowed = @ + (IF allowed THEN 1 ELSE 0)]
                  ELSE [start |-> nowMs, resetTime |-> current.resetTime,
                        allowed |-> IF allowed THEN 1 ELSE 0]]
        /\ served' = served + 1

----------------------------------------------------------------------------
(* api/query/route.js POST and routeQuery as steps of one request *)


HttpError(status, message, detail) ==
    [status |-> status, kind |-> "error", error |-> message, detail |-> detail]
HttpOk(kind, payload, limit) ==
    [status |-> 200, kind |-> kind, response |-> payload,
     remaining |-> limit.remaining - 1]
NoResponse == [status |-> 0, kind |-> "none"]

\* what POST reads of a request: the Authorization header, what verifyToken
\* does with the token, and the query of the body
Requests ==
    [header : {"none", "basic", "bearer"},
     token : {"rejected", "no-email", "verified"},
     email : Emails,
     query : {Undef, Num(1), Str(<<" ">>), Str(<<"w">>)},
     json : BOOLEAN]

\* POST with the rate limit checked before the token
PostFront_limitFirst ==
    /\ pc = "arrived"
    /\ \E request \in Requests :
          /\ IF request.token = "verified"
             THEN checkRateLimit(request.email)
             ELSE UNCHANGED <<cache, rateLimitResult, windows, served>>
          /\ IF request.header # "bearer"
             THEN /\ response' = HttpError(401,
                        "Authentication required. Please provide a valid token.", "none")
                  /\ pc' = "done"
             ELSE IF request.token # "verified"
             THEN /\ response' = HttpError(401,
                        "Invalid or expired authentication token.", "none")
                  /\ pc' = "done"
             ELSE IF ~rateLimitResult'.allowed
             THEN /\ response' = HttpError(429,
                        "Rate limit exceeded. Please try again later.",
                        [remaining |-> rateLimitResult'.remaining,
                         resetTime |-> rateLimitResult'.resetTime])
                  /\ pc' = "done"
             ELSE /\ response' = response
                  /\ pc' = "start"
    /\ UNCHANGED nowMs
    /\ UNCHANGED <<env, routerVars, body, routed, toolCalls, store, nextId, clock,
                   lastCall, lastQuery, dbResult, prevStore, born, tasks>>

\* POST lines 18-68 and 153-158: authentication, rate limit, body
PostFront ==
    /\ pc = "arrived"
    /\ \E request \in Requests :
          IF request.header # "bearer"
          THEN /\ response' = HttpError(401,
                     "Authentication required. Please provide a valid token.", "none")
               /\ pc' = "done"
               /\ UNCHANGED <<cache, rateLimitResult, windows, served>>
          ELSE IF request.token = "rejected"
          THEN /\ response' = HttpError(401,
                     "Invalid or expired authentication token.", "none")
               /\ pc' = "done"
               /\ UNCHANGED <<cache, rateLimitResult, windows, served>>
          ELSE IF request.token = "no-email"
          THEN /\ response' = HttpError(401, "User email not found in token.", "none")
               /\ pc' = "done"
               /\ UNCHANGED <<cache, rateLimitResult, windows, served>>
          ELSE /\ checkRateLimit(request.email)
               /\ IF ~rateLimitResult'.allowed
                  THEN /\ response' = HttpError(429,
                             "Rate limit exceeded. Please try again later.",
                             [remaining |-> rateLimitResult'.remaining,
                              resetTime |-> rateLimitResult'.resetTime])
                       /\ pc' = "done"
                  ELSE IF ~request.json
                  THEN /\ response' = HttpError(500,
                             "An unexpected error occurred. Please try again.", "none")
                       /\ pc' = "done"
                  ELSE IF \/ ~Truthy(request.query)
                          \/ request.query.t # "string"
                          \/ Len(trim(request.query.v)) = 0
                  THEN /\ response' = HttpError(400,
                             "Query is required and must be a non-empty string.", "none")
                       /\ pc' = "done"
                  ELSE /\ response' = response
                       /\ pc' = "start"
    /\ UNCHANGED nowMs
    /\ UNCHANGED <<env, routerVars, body, routed, toolCalls, store, nextId, clock,
                   lastCall, lastQuery, dbResult, prevStore, born, tasks>>

\* POST lines 18-68: the request is refused before routing
PostReject ==
    /\ pc = "start"
    /\ \E refusal \in
            { HttpError(401, "Authentication required. Please provide a valid token.", "none"),
              HttpError(401, "Invalid or expired authentication token.", "none"),
              HttpError(401, "User email not found in token.", "none"),
              HttpError(429, "Rate limit exceeded. Please try again later.", "none"),
              HttpError(400, "Query is required and must be a non-empty string.", "none") } :
          response' = refusal
    /\ pc' = "done"
    /\ UNCHANGED <<env, routerVars, body, routed, toolCalls, storeVars>>

\* POST line 73 into routeQuery line 113: the keys are read, the loops start
PostRoute ==
    /\ pc = "start"
    /\ apiKeys' = getAvailableApiKeys(env)
    /\ IF apiKeys' = <<>>
       THEN /\ routed' = Thrown(ERR_NO_KEY, NoError)
            /\ pc' = "respond"
            /\ UNCHANGED <<ki, mi>>
       ELSE /\ routed' = routed
            /\ pc' = "cascade"
            /\ ki' = 1
            /\ mi' = 1
    /\ UNCHANGED <<env, inflight, callLog, okLog, text, lastError, body,
                   response, toolCalls, storeVars>>

\* tryModel called without waiting for the call before it
CallIssue_unawaited ==
    /\ pc = "cascade"
    /\ Len(callLog) < Len(apiKeys) * Len(MODEL_FALLBACK_LIST)
    /\ inflight' = <<ki, mi>>
    /\ callLog' = Append(callLog, [key |-> apiKeys[ki],
                                   model |-> MODEL_FALLBACK_LIST[mi]])
    /\ UNCHANGED <<env, pc, apiKeys, ki, mi, okLog, text, lastError, body,
                   routed, response, toolCalls, storeVars>>

\* line 205: tryModel(apiKey, modelName, prompt) is called and awaited
CallIssue ==
    /\ pc = "cascade"
    /\ inflight = <<>>
    /\ inflight' = <<ki, mi>>
    /\ callLog' = Append(callLog, [key |-> apiKeys[ki],
                                   model |-> MODEL_FALLBACK_LIST[mi]])
    /\ UNCHANGED <<env, pc, apiKeys, ki, mi, okLog, text, lastError, body,
                   routed, response, toolCalls, storeVars>>

\* lines 223-231 once the model loop has ended for key ki with text t: leave
\* the key loop, go to the next key, or throw when the keys are used up
afterModelLoop(t, err) ==
    IF t # <<>>
    THEN /\ pc' = "extract"
         /\ routed' = routed
         /\ UNCHANGED <<ki, mi>>
    ELSE IF ki < Len(apiKeys)
    THEN /\ pc' = "cascade"
         /\ routed' = routed
         /\ ki' = ki + 1
         /\ mi' = 1
    ELSE /\ pc' = "respond"
         /\ routed' = Thrown(ERR_EXHAUSTED, err)
         /\ UNCHANGED <<ki, mi>>

\* a fail-fast catch block: only the transient classes continue
catchAction_failFast(error) ==
    CASE error.kind = "QUOTA_EXCEEDED" -> "continue"
      [] error.kind = "MODEL_NOT_FOUND" -> "continue"
      [] OTHER -> "throw"

\* lines 210-221: what the catch block of the model loop does with the error
catchAction(error) ==
    CASE error.kind = "QUOTA_EXCEEDED" -> "continue"
      [] error.kind = "MODEL_NOT_FOUND" -> "continue"
      [] OTHER -> "continue"

\* lines 210-222: the awaited call threw
CallFail ==
    /\ pc = "cascade"
    /\ inflight # <<>>
    /\ \E err \in ProviderErrors :
          /\ lastError' = tryModelError(err, MODEL_FALLBACK_LIST[mi])
          /\ IF catchAction(lastError') # "continue"
             THEN /\ pc' = "respond"
                  /\ routed' = Thrown(lastError'.kind, lastError')
                  /\ UNCHANGED <<ki, mi>>
             ELSE IF mi < Len(MODEL_FALLBACK_LIST)
             THEN /\ mi' = mi + 1
                  /\ UNCHANGED <<pc, routed, ki>>
             ELSE afterModelLoop(text, lastError')
    /\ inflight' = <<>>
    /\ UNCHANGED <<env, apiKeys, callLog, okLog, text, body, response,
                   toolCalls, storeVars>>

\* lines 205-209: the awaited call returned completion (a text and, where the
\* text has a member list, the value it denotes)
CallReturn(completions) ==
    /\ pc = "cascade"
    /\ inflight # <<>>
    /\ \E c \in completions :
          /\ text' = c[1]
          /\ body' = c[2]
          /\ okLog' = Append(okLog, [text |-> c[1], at |-> Len(callLog)])
          /\ afterModelLoop(c[1], lastError)
    /\ inflight' = <<>>
    /\ UNCHANGED <<env, apiKeys, callLog, lastError, response, toolCalls,
                   storeVars>>

\* lines 233-253
Extract ==
    /\ pc = "extract"
    /\ routed' = IF extract(text, body).kind = "error"
                 THEN extract(text, body)
                 ELSE [kind |-> "parsed", instr |-> extract(text, body).instr]
    /\ pc' = IF extract(text, body).kind = "error" THEN "respond" ELSE "validate"
    /\ UNCHANGED <<env, routerVars, body, response, toolCalls, storeVars>>

\* lines 255-299
Validate ==
    /\ pc = "validate"
    /\ \E strictMode \in BOOLEAN : routed' = validate(routed.instr, strictMode)
    /\ pc' = "respond"
    /\ UNCHANGED <<env, routerVars, body, response, toolCalls, storeVars>>

\* POST lines 74-80
RespondRoutingError ==
    /\ pc = "respond"
    /\ routed.kind = "error"
    /\ response' = HttpError(500, "Failed to process query. Please try again.", "none")
    /\ pc' = "done"
    /\ UNCHANGED <<env, routerVars, body, routed, toolCalls, storeVars>>

\* POST lines 84-98: the guidance text
helpMessage(instr) ==
    IF Truthy(instr.guidedResponse) THEN instr.guidedResponse
    ELSE IF instr.tool = Str(Literal.weather) THEN [t |-> "getWeatherHelp"]
    ELSE IF instr.tool = Str(Literal.database)
    THEN [t |-> "getDatabaseHelp", v |-> instr.missingInfo]
    ELSE [t |-> "getGeneralHelp"]

\* a guidance gate that also wants the guidance text
isInsufficient_whenGuided(instr) ==
    instr.insufficientInfo = Bool(TRUE) /\ Truthy(instr.guidedResponse)

\* POST line 83: routingInstructions.insufficientInfo === true
isInsufficient(instr) == instr.insufficientInfo = Bool(TRUE)

\* POST lines 83-107
RespondGuidance ==
    /\ pc = "respond"
    /\ routed.kind = "instr"
    /\ isInsufficient(routed.instr)
    /\ response' = HttpOk("guidance", helpMessage(routed.instr), rateLimitResult)
    /\ pc' = "done"
    /\ UNCHANGED <<env, routerVars, body, routed, toolCalls, storeVars>>

\* parameters?.location || parameters?.city || 'Unknown'
locationOf(instr) ==
    OrElse(OrElse(Prop(instr.parameters, "location"),
                  Prop(instr.parameters, "city")),
           Str(Literal.Unknown))

\* parameters?.entity || 'records'
entityOf(instr) == OrElse(Prop(instr.parameters, "entity"), Str(Literal.records))

\* POST lines 109-152
PostDispatch ==
    /\ pc = "respond"
    /\ routed.kind = "instr"
    /\ ~isInsufficient(routed.instr)
    /\ IF routed.instr.tool = Str(Literal.weather)
       THEN /\ IF locationOf(routed.instr) = Str(Literal.Unknown)
               THEN /\ response' = HttpOk("guidance", [t |-> "getWeatherHelp"],
                                            rateLimitResult)
                    /\ toolCalls' = toolCalls
               ELSE /\ response' = HttpOk("weather", locationOf(routed.instr),
                                            rateLimitResult)
                    /\ toolCalls' = Append(toolCalls,
                           [fn |-> "getWeather", arg |-> locationOf(routed.instr)])
            /\ UNCHANGED storeVars
       ELSE IF routed.instr.tool = Str(Literal.database)
       THEN /\ toolCalls' = Append(toolCalls,
                   [fn |-> "handleDatabaseOperation",
                    arg |-> <<routed.instr.action, entityOf(routed.instr)>>])
            /\ \E fault \in StoreFaults :
                  handleDatabaseOperation(routed.instr.action,
                                          entityOf(routed.instr),
                                          routed.instr.parameters, fault)
            /\ response' =
                  IF dbResult'.kind = "error"
                  THEN HttpError(500, "Failed to execute database operation",
                                 <<dbResult'.message, dbResult'.detail>>)
                  ELSE HttpOk("database", dbResult', rateLimitResult)
       ELSE /\ response' = HttpError(500, "Failed to execute operation",
                                     "Unknown tool")
            /\ UNCHANGED <<toolCalls, storeVars>>
    /\ pc' = "done"
    /\ UNCHANGED <<env, routerVars, body, routed>>

----------------------------------------------------------------------------
(* Inputs *)


\* field names and values of the requests and records of the runs
Sample ==
    [ name |-> <<"n", "a", "m", "e">>,
      price |-> <<"p", "r", "i", "c", "e">>,
      minPrice |-> <<"m", "i", "n", "P", "r", "i", "c", "e">>,
      products |-> <<"p", "r", "o", "d", "u", "c", "t", "s">>,
      Company |-> <<"C", "o", "m", "p", "a", "n", "y">>,
      ALL |-> <<"A", "L", "L">>,
      check |-> <<"c", "h", "e", "c", "k">>,
      Paris |-> <<"P", "a", "r", "i", "s">>,
      email |-> <<"e", "m", "a", "i", "l">>,
      Remove |-> <<"R", "e", "m", "o", "v", "e">>,
      purge |-> <<"p", "u", "r", "g", "e">>,
      X |-> Str(<<"X">>) ]

\* environments: GEMINI_API_KEY and the GEMINI_API_KEY_<n> values in order
Envs ==
    { [primary |-> Str(<<"A">>), fallbacks |-> <<>>],
      [primary |-> Str(<<"A", ",", " ", "B", ",", ",", "A">>),
       fallbacks |-> << <<"B">>, <<" ">> >>],
      [primary |-> Undef, fallbacks |-> << <<"A">> >>],
      [primary |-> Str(<<" ", ",", " ">>), fallbacks |-> <<>>],
      [primary |-> Str(<<"A", ",", "B">>), fallbacks |-> << <<"C">>, <<"A">> >>] }

Params(location, city, entity, filters, data) ==
    Obj([location |-> location, city |-> city, entity |-> entity,
         filters |-> filters, data |-> data])

Instr(tool, action, parameters, insufficientInfo, guidedResponse) ==
    [tool |-> tool, action |-> action, parameters |-> parameters,
     insufficientInfo |-> insufficientInfo, missingInfo |-> Undef,
     guidedResponse |-> guidedResponse]

\* the collection at the start of a request: two records made by addRecord
InitialStore ==
    { [id |-> 1, f |-> (Literal.entity :> Str(Sample.products) @@ Sample.name :> Sample.X
                        @@ Sample.price :> Num(5) @@ Literal.createdAt :> Date(1)
                        @@ Literal.updatedAt :> Date(1))],
      [id |-> 2, f |-> (Literal.entity :> Str(<<"c", "o", "m", "p", "a", "n", "i", "e", "s">>)
                        @@ Sample.name :> Sample.X @@ Literal.createdAt :> Date(2)
                        @@ Literal.updatedAt :> Date(2))] }

\* the entity and createdAt each document of a collection was created with
Births(docs) ==
    [id \in {d.id : d \in docs} |->
        LET d == CHOOSE x \in docs : x.id = id
        IN  [entity |-> d.f[Literal.entity], createdAt |-> d.f[Literal.createdAt]]]

\* completion texts of the cascade runs
CascadeTexts ==
    { <<>>,
      <<" ">>,
      <<"{", "B", "}">>,
      <<FENCE, "json", "\n", "{", "B", "}", "\n", FENCE>>,
      <<"w", " ", "w">>,
      <<"{", "B", "w", "}">> }

\* member lists of the cascade runs
CascadeBodies ==
    { Instr(Str(Literal.weather), Str(Sample.check),
            Params(Str(Sample.Paris), Undef, Undef, Undef, Undef), Bool(FALSE), Undef),
      Instr(Str(Literal.weather), Str(Sample.check), Obj(EmptyParams), Bool(TRUE),
            Str(<<"Try: Weather in London">>)),
      Instr(Str(Literal.database), Str(Literal.delete),
            Params(Undef, Undef, Str(Literal.record), Obj(<< <<Sample.name, Sample.X>> >>), Undef),
            Bool(FALSE), Undef),
      Instr(Str(Literal.database), Str(Literal.add),
            Params(Undef, Undef, Str(Sample.products), Undef,
                   Obj(<< <<Sample.name, Str(<<"Y">>)>>, <<Sample.price, Num(7)>> >>)),
            Bool(FALSE), Undef) }

hasMembers(t) == \E i \in 1..Len(t) : t[i] = "B"

Completions(texts, bodies) ==
    {<<t, b>> : t \in {x \in texts : hasMembers(x)}, b \in bodies}
        \cup {<<t, EmptyObject>> : t \in {x \in texts : ~hasMembers(x)}}

----------------------------------------------------------------------------
(* Spec: one request through the endpoint, from authentication to response *)

Init ==
    /\ env \in Envs
    /\ pc = "start"
    /\ apiKeys = <<>>
    /\ ki = 0
    /\ mi = 0
    /\ inflight = <<>>
    /\ callLog = <<>>
    /\ okLog = <<>>
    /\ text = <<>>
    /\ lastError = NoError
    /\ body = EmptyObject
    /\ routed = NotRouted
    /\ response = NoResponse
    /\ toolCalls = <<>>
    /\ store = InitialStore
    /\ nextId = Cardinality(InitialStore) + 1
    /\ clock = Cardinality(InitialStore) + 1
    /\ lastCall = NoCall
    /\ lastQuery = NoQuery
    /\ dbResult = NoResult
    /\ prevStore = InitialStore
    /\ born = Births(InitialStore)
    /\ tasks = <<>>
    /\ InitLimiter

CallSucceed == CallReturn(Completions(CascadeTexts, CascadeBodies))

Next ==
    \/ PostReject
    \/ PostRoute
    \/ CallIssue
    \/ CallFail
    \/ CallSucceed
    \/ Extract
    \/ Validate
    \/ RespondRoutingError
    \/ RespondGuidance
    \/ PostDispatch

Spec == Init /\ [][Next]_vars

----------------------------------------------------------------------------
(* SpecRoute: routeQuery from a completed cascade, over every short text    *)
(* and every combination of instruction fields                             *)

MaxTextLen == 3

\* the lexemes of a completion text: braces, the fence, its tag, whitespace,
\* prose (w) and the member list of an object (B)
Lexemes == {"{", "}", FENCE, "json", " ", "\n", "w", "B"}

\* every text of up to MaxTextLen lexemes, the empty one excepted (an empty
\* text does not end the cascade)
ShortTexts == UNION {[1..k -> Lexemes] : k \in 1..MaxTextLen}

\* texts of a JSON object
JsonObjectTexts ==
    { <<"{", "B", "}">>, <<"{", "}">>, <<"{", " ", "B", "\n", "}">>,
      <<"{", "\n", "}">> }

\* an object text inside each kind of fence
Wrap(kind, j) ==
    CASE kind = "json" -> <<FENCE, "json", "\n">> \o j \o <<"\n", FENCE>>
      [] kind = "json-spaces" ->
             <<FENCE, "json", "\n", " ", " ">> \o j \o <<"\n", FENCE, "\n">>
      [] kind = "json-tight" -> <<FENCE, "json">> \o j \o <<FENCE>>
      [] kind = "bare" -> <<FENCE, "\n">> \o j \o <<"\n", FENCE>>
      [] kind = "prose" ->
             <<"w", " ", "w", "\n", FENCE, "json", "\n">> \o j \o <<"\n", FENCE, "\n", "w">>
      [] OTHER -> j

WrappedTexts ==
    { Wrap(k, j) :
        k \in {"none", "json", "json-spaces", "json-tight", "bare", "prose"},
        j \in JsonObjectTexts }

ExtractBodies ==
    { Instr(Str(Literal.weather), Str(Sample.check),
            Params(Str(Sample.Paris), Undef, Undef, Undef, Undef), Bool(FALSE), Undef),
      Instr(Str(Literal.database), Str(Literal.add), Obj(EmptyParams), Bool(TRUE), Undef) }

\* every combination of the fields routeQuery and the endpoint read
AllBodies ==
    LET tools == {Undef, Null, Str(<<>>), Str(Literal.weather),
                  Str(Literal.database), Str(Sample.email), Num(1)}
        actions == {Undef, Null, Str(<<>>), Str(Sample.check),
                    Str(Literal.delete), Str(Literal.add), Num(5)}
        flags == {Undef, Bool(TRUE), Bool(FALSE), Str(<<"t", "r", "u", "e">>)}
        parameters ==
            { Undef, Null, Str(<<"x">>), Obj(EmptyParams),
              Params(Str(Sample.Paris), Undef, Undef, Undef, Undef),
              Params(Undef, Str(Sample.Paris), Undef, Undef, Undef),
              Params(Str(Literal.Unknown), Null, Undef, Undef, Undef),
              Params(Undef, Undef, Str(Literal.record),
                     Obj(<< <<Sample.name, Sample.X>> >>), Null),
              Params(Undef, Undef, Null, Undef,
                     Obj(<< <<Sample.name, Str(<<"Y">>)>>,
                            <<Sample.price, Num(7)>> >>)) }
        guidance == {Undef, Str(<<"Try: Weather in London">>)}
    IN  { Instr(tl, ac, pa, fl, gu) :
            tl \in tools, ac \in actions, pa \in parameters,
            fl \in flags, gu \in guidance }

CanonicalTexts ==
    {Wrap(k, <<"{", "B", "}">>) : k \in {"none", "json", "bare"}}

RouteCompletions ==
    Completions(ShortTexts \cup WrappedTexts, ExtractBodies)
        \cup Completions(CanonicalTexts, AllBodies)

InitRoute ==
    /\ env = [primary |-> Str(<<"A">>), fallbacks |-> <<>>]
    /\ pc = "extract"
    /\ apiKeys = getAvailableApiKeys(env)
    /\ ki = 1
    /\ mi = 1
    /\ inflight = <<>>
    /\ callLog = <<[key |-> apiKeys[1], model |-> MODEL_FALLBACK_LIST[1]]>>
    /\ \E c \in RouteCompletions :
          /\ text = c[1]
          /\ body = c[2]
          /\ okLog = <<[text |-> c[1], at |-> 1]>>
    /\ lastError = NoError
    /\ routed = NotRouted
    /\ response = NoResponse
    /\ toolCalls = <<>>
    /\ store = InitialStore
    /\ nextId = Cardinality(InitialStore) + 1
    /\ clock = Cardinality(InitialStore) + 1
    /\ lastCall = NoCall
    /\ lastQuery = NoQuery
    /\ dbResult = NoResult
    /\ prevStore = InitialStore
    /\ born = Births(InitialStore)
    /\ tasks = <<>>
    /\ InitLimiter

NextRoute ==
    \/ Extract
    \/ Validate
    \/ RespondRoutingError
    \/ RespondGuidance
    \/ PostDispatch

SpecRoute == InitRoute /\ [][NextRoute]_vars

----------------------------------------------------------------------------
(* SpecDb: handleDatabaseOperation called directly, as scripts/test-delete.js *)
(* does                                                                    *)

MaxOps == 1

DbActions ==
    {Str(Literal.add), Str(Literal.update), Str(Literal.delete),
     Str(Sample.Remove), Str(Literal.display),
     Str(Literal.count), Str(Sample.purge)}

DbEntities ==
    {Null, Str(Literal.record), Str(Sample.ALL), Str(Sample.products),
     Str(Sample.Company)}

\* the store answers, is not initialised, or fails the call
DbFaults == {"none", "not-ready", "unavailable"}

DbParameters ==
    { Obj(EmptyParams),
      Params(Undef, Undef, Undef, Obj(<< <<Sample.name, Sample.X>> >>),
             Obj(<< <<Literal.entity, Str(Sample.email)>>,
                    <<Literal.createdAt, Str(<<"2", "0", "2", "0">>)>>,
                    <<<<"i", "d">>, Str(<<"z">>)>> >>)),
      Params(Undef, Undef, Undef,
             Obj(<< <<Literal.entity, Str(Sample.products)>>, <<Sample.price, Num(5)>>,
                    <<Sample.name, Sample.X>> >>),
             Obj(<< <<Sample.price, Num(7)>> >>)),
      Params(Undef, Undef, Undef, Obj(<< <<Sample.minPrice, Num(5)>> >>), Null),
      Params(Undef, Undef, Undef, Undef,
             Obj(<< <<Sample.name, Sample.X>>, <<Sample.price, Num(5)>> >>)) }

DbDispatch ==
    /\ clock < Cardinality(InitialStore) + 1 + MaxOps
    /\ \E action \in DbActions, entity \in DbEntities,
          parameters \in DbParameters, fault \in DbFaults :
          handleDatabaseOperation(action, entity, parameters, fault)
    /\ UNCHANGED <<env, pc, routerVars, body, routed, response, toolCalls>>

InitDb ==
    /\ env = [primary |-> Undef, fallbacks |-> <<>>]
    /\ pc = "done"
    /\ apiKeys = <<>>
    /\ ki = 0
    /\ mi = 0
    /\ inflight = <<>>
    /\ callLog = <<>>
    /\ okLog = <<>>
    /\ text = <<>>
    /\ lastError = NoError
    /\ body = EmptyObject
    /\ routed = NotRouted
    /\ response = NoResponse
    /\ toolCalls = <<>>
    /\ store = InitialStore
    /\ nextId = Cardinality(InitialStore) + 1
    /\ clock = Cardinality(InitialStore) + 1
    /\ lastCall = NoCall
    /\ lastQuery = NoQuery
    /\ dbResult = NoResult
    /\ prevStore = InitialStore
    /\ born = Births(InitialStore)
    /\ tasks = <<>>
    /\ InitLimiter

NextDb == DbDispatch

SpecDb == InitDb /\ [][NextDb]_vars

----------------------------------------------------------------------------
(* SpecQuery: one read or count call for every filter mapping of up to      *)
(* MaxKeys keys                                                             *)

MaxKeys == 2

\* the filter keys and the value each has in a mapping
QueryFilterValues ==
    (Sample.name :> Sample.X
       @@ Sample.price :> Num(5)
       @@ Sample.minPrice :> Num(100)
       @@ <<"M", "a", "x", "P", "r", "i", "c", "e">> :> Num(7)
       @@ Literal.entity :> Str(Sample.products)
       @@ Literal.joinedLastMonth :> Bool(TRUE))

\* the mappings of up to MaxKeys distinct keys, in every key order, and null
QueryFilters ==
    {Null} \cup
    {Obj([i \in DOMAIN keys |-> <<keys[i], QueryFilterValues[keys[i]]>>]) :
        keys \in {k \in UNION {[1..n -> DOMAIN QueryFilterValues] : n \in 0..MaxKeys} :
                     \A i, j \in DOMAIN k : k[i] = k[j] => i = j}}

QueryActions == {Str(Literal.display), Str(Literal.count)}

QueryEntities == {Null, Str(Literal.record), Str(Sample.products)}

QueryDispatch ==
    /\ lastCall = NoCall
    /\ \E action \in QueryActions, entity \in QueryEntities,
          filters \in QueryFilters, fault \in DbFaults :
          handleDatabaseOperation(action, entity,
                                  Params(Undef, Undef, Undef, filters, Undef), fault)
    /\ UNCHANGED <<env, pc, routerVars, body, routed, response, toolCalls>>

NextQuery == QueryDispatch

SpecQuery == InitDb /\ [][NextQuery]_vars

----------------------------------------------------------------------------
(* SpecNormalize: one read call for every entity name of up to MaxNameLen   *)
(* characters                                                               *)

MaxNameLen == 3

NameChars == {"y", "s", "a", "Y", "S", " "}

EntityNames ==
    {Str(name) : name \in UNION {[1..n -> NameChars] : n \in 0..MaxNameLen}}

NormalizeDispatch ==
    /\ lastCall = NoCall
    /\ \E entity \in EntityNames :
          handleDatabaseOperation(Str(Literal.display), entity, Obj(EmptyParams),
                                  "none")
    /\ UNCHANGED <<env, pc, routerVars, body, routed, response, toolCalls>>

NextNormalize == NormalizeDispatch

SpecNormalize == InitDb /\ [][NextNormalize]_vars

----------------------------------------------------------------------------
(* SpecVerb: one call of handleDatabaseOperation for every verb of the      *)
(* switch and every outcome of the store                                    *)

VerbActions ==
    {Str(Literal.add), Str(Literal.create), Str(Literal.modify),
     Str(Literal.update), Str(Literal.edit), Str(Literal.delete),
     Str(Literal.remove), Str(Literal.display), Str(Literal.list),
     Str(Literal.show), Str(Literal.count), Str(Sample.Remove),
     Str(Sample.purge)}

VerbEntities == {Null, Str(Literal.record), Str(Sample.products)}

VerbDispatch ==
    /\ lastCall = NoCall
    /\ \E action \in VerbActions, entity \in VerbEntities,
          parameters \in DbParameters, fault \in StoreFaults :
          handleDatabaseOperation(action, entity, parameters, fault)
    /\ UNCHANGED <<env, pc, routerVars, body, routed, response, toolCalls>>

NextVerb == VerbDispatch

SpecVerb == InitDb /\ [][NextVerb]_vars

----------------------------------------------------------------------------
(* SpecRace: two calls of modifyRecord / deleteRecord whose awaits          *)
(* interleave; each call is a query step and a write step                   *)

Tasks == {"a", "b"}

NoDoc == [id |-> 0, f |-> <<>>]

\* a call that has not reached its first await
Called(action, entity, filters, data) ==
    [action |-> action, entity |-> entity, filters |-> filters, data |-> data,
     phase |-> "called", doc |-> NoDoc, result |-> NoResult, wroteAt |-> 0]

RaceCalls ==
    {Called(Str(Literal.delete), entity, Obj(<< <<Sample.name, Sample.X>> >>), Null) :
        entity \in {Str(Literal.record), Str(Sample.products)}}
    \cup
    {Called(Str(Literal.update), entity, Obj(<< <<Sample.name, Sample.X>> >>), data) :
        entity \in {Str(Literal.record), Str(Sample.products)},
        data \in {Obj(<< <<Sample.price, Num(7)>> >>),
                  Obj(<< <<Sample.price, Num(9)>>, <<Sample.check, Bool(TRUE)>> >>),
                  Obj(<<>>)}}

\* modifyRecord lines 206-233 / deleteRecord lines 263-286: up to the answer
\* of await query.limit(1).get()
TaskQuery(t) ==
    LET call == tasks[t]
        isUpdate == operationOf(call.action) = "update"
        query == IF isUpdate THEN modifyQuery(call.entity, call.filters)
                 ELSE deleteQuery(call.entity, call.filters)
    IN  /\ call.phase = "called"
        /\ IF isUpdate /\ (~Truthy(call.data) \/ Len(call.data.v) = 0)
           THEN tasks' = [tasks EXCEPT ![t].phase = "returned",
                             ![t].result = Ok("No update data provided.", Null, {})]
           ELSE \E snap \in snapshots(store, query) :
                   IF snap = {}
                   THEN tasks' = [tasks EXCEPT ![t].phase = "returned",
                                     ![t].result =
                                        Ok("No found matching criteria.",
                                           OrElse(call.entity, Str(Literal.records)),
                                           {})]
                   ELSE \E doc \in snap :
                           tasks' = [tasks EXCEPT ![t].phase = "selected",
                                                  ![t].doc = doc]
        /\ UNCHANGED <<store, nextId, clock, lastCall, lastQuery, dbResult,
                       prevStore, born>>
        /\ UNCHANGED <<env, pc, routerVars, body, routed, response, toolCalls,
                       limitVars>>

\* a write step that refuses to update a document changed since it was read
TaskWrite_versionChecked(t) ==
    LET call == tasks[t]
        current == {d \in store : d.id = call.doc.id}
    IN  /\ call.phase = "selected"
        /\ IF operationOf(call.action) = "update"
           THEN IF current = {} \/ current # {call.doc}
                THEN /\ store' = store
                     /\ tasks' = [tasks EXCEPT ![t].phase = "returned",
                                     ![t].result = Failure("Failed to modify record",
                                                           "not-found")]
                ELSE /\ store' = (store \ current) \cup
                          {[d EXCEPT !.f = spread(spread(@, mapFun(call.data)),
                                                  (Literal.updatedAt :> Date(clock)))] :
                              d \in current}
                     /\ tasks' = [tasks EXCEPT ![t].phase = "returned",
                                     ![t].wroteAt = clock,
                                     ![t].result =
                                        Ok("Successfully updated the",
                                           OrElse(call.entity, Str(Literal.record)),
                                           {spread(withId(call.doc),
                                                   mapFun(call.data))})]
           ELSE /\ store' = store \ current
                /\ tasks' = [tasks EXCEPT ![t].phase = "returned",
                                ![t].wroteAt = clock,
                                ![t].result =
                                   Ok("Successfully deleted the",
                                      OrElse(call.entity, Str(Literal.record)), {})]
        /\ prevStore' = store
        /\ clock' = clock + 1
        /\ UNCHANGED <<nextId, lastCall, lastQuery, dbResult, born>>
        /\ UNCHANGED <<env, pc, routerVars, body, routed, response, toolCalls,
                       limitVars>>

\* modifyRecord lines 235-244: await doc.ref.update(...), which the store
\* rejects with NOT_FOUND when the document is gone; deleteRecord lines
\* 288-291: await doc.ref.delete(), which the store accepts whether or not the
\* document is still there
TaskWrite(t) ==
    LET call == tasks[t]
        current == {d \in store : d.id = call.doc.id}
    IN  /\ call.phase = "selected"
        /\ IF operationOf(call.action) = "update"
           THEN IF current = {}
                THEN /\ store' = store
                     /\ tasks' = [tasks EXCEPT ![t].phase = "returned",
                                     ![t].result = Failure("Failed to modify record",
                                                           "not-found")]
                ELSE /\ store' = (store \ current) \cup
                          {[d EXCEPT !.f = spread(spread(@, mapFun(call.data)),
                                                  (Literal.updatedAt :> Date(clock)))] :
                              d \in current}
                     /\ tasks' = [tasks EXCEPT ![t].phase = "returned",
                                     ![t].wroteAt = clock,
                                     ![t].result =
                                        Ok("Successfully updated the",
                                           OrElse(call.entity, Str(Literal.record)),
                                           {spread(withId(call.doc),
                                                   mapFun(call.data))})]
           ELSE /\ store' = store \ current
                /\ tasks' = [tasks EXCEPT ![t].phase = "returned",
                                ![t].wroteAt = clock,
                                ![t].result =
                                   Ok("Successfully deleted the",
                                      OrElse(call.entity, Str(Literal.record)), {})]
        /\ prevStore' = store
        /\ clock' = clock + 1
        /\ UNCHANGED <<nextId, lastCall, lastQuery, dbResult, born>>
        /\ UNCHANGED <<env, pc, routerVars, body, routed, response, toolCalls,
                       limitVars>>

InitRace ==
    /\ env = [primary |-> Undef, fallbacks |-> <<>>]
    /\ pc = "done"
    /\ apiKeys = <<>>
    /\ ki = 0
    /\ mi = 0
    /\ inflight = <<>>
    /\ callLog = <<>>
    /\ okLog = <<>>
    /\ text = <<>>
    /\ lastError = NoError
    /\ body = EmptyObject
    /\ routed = NotRouted
    /\ response = NoResponse
    /\ toolCalls = <<>>
    /\ store = InitialStore
    /\ nextId = Cardinality(InitialStore) + 1
    /\ clock = Cardinality(InitialStore) + 1
    /\ lastCall = NoCall
    /\ lastQuery = NoQuery
    /\ dbResult = NoResult
    /\ prevStore = InitialStore
    /\ born = Births(InitialStore)
    /\ tasks \in [Tasks -> RaceCalls]
    /\ InitLimiter

NextRace ==
    \/ \E t \in Tasks : TaskQuery(t)
    \/ \E t \in Tasks : TaskWrite(t)

SpecRace == InitRace /\ [][NextRace]_vars

----------------------------------------------------------------------------
(* SpecLimit: checkRateLimit called for several users as time passes *)

MaxRequests == 13
MaxWaits == 1

\* the time between two calls: none, a whole window, a window and a millisecond
Delays == {0, RATE_LIMIT_WINDOW_MS, RATE_LIMIT_WINDOW_MS + 1}

LimitCall ==
    /\ served < MaxRequests
    /\ \E email \in Emails : checkRateLimit(email)
    /\ UNCHANGED nowMs
    /\ UNCHANGED <<env, pc, routerVars, body, routed, response, toolCalls, store,
                   nextId, clock, lastCall, lastQuery, dbResult, prevStore, born,
                   tasks>>

TimePasses ==
    /\ \E delay \in Delays \ {0} :
          /\ nowMs + delay <= MaxWaits * (RATE_LIMIT_WINDOW_MS + 1)
          /\ nowMs' = nowMs + delay
    /\ UNCHANGED <<cache, rateLimitResult, windows, served>>
    /\ UNCHANGED <<env, pc, routerVars, body, routed, response, toolCalls, store,
                   nextId, clock, lastCall, lastQuery, dbResult, prevStore, born,
                   tasks>>

NextLimit == LimitCall \/ TimePasses

SpecLimit == InitDb /\ [][NextLimit]_vars

----------------------------------------------------------------------------
(* SpecOrder: one request from its arrival to its response, the user having *)
(* made up to RATE_LIMIT_MAX_REQUESTS requests in the window before         *)

InitOrder ==
    /\ env \in {[primary |-> Str(<<"A">>), fallbacks |-> <<>>],
                [primary |-> Str(<<" ", ",", " ">>), fallbacks |-> <<>>]}
    /\ pc = "arrived"
    /\ apiKeys = <<>>
    /\ ki = 0
    /\ mi = 0
    /\ inflight = <<>>
    /\ callLog = <<>>
    /\ okLog = <<>>
    /\ text = <<>>
    /\ lastError = NoError
    /\ body = EmptyObject
    /\ routed = NotRouted
    /\ response = NoResponse
    /\ toolCalls = <<>>
    /\ store = InitialStore
    /\ nextId = Cardinality(InitialStore) + 1
    /\ clock = Cardinality(InitialStore) + 1
    /\ lastCall = NoCall
    /\ lastQuery = NoQuery
    /\ dbResult = NoResult
    /\ prevStore = InitialStore
    /\ born = Births(InitialStore)
    /\ tasks = <<>>
    /\ nowMs = 0
    /\ \E earlier \in 0..RATE_LIMIT_MAX_REQUESTS :
          /\ served = earlier
          /\ cache = IF earlier = 0 THEN <<>>
                     ELSE <<[key |-> 1, count |-> earlier,
                             resetTime |-> RATE_LIMIT_WINDOW_MS, setAt |-> 0]>>
          /\ windows = [e \in Emails |->
                          IF e = 1 /\ earlier > 0
                          THEN [start |-> 0, resetTime |-> RATE_LIMIT_WINDOW_MS,
                                allowed |-> earlier]
                          ELSE NoWindow]
          /\ rateLimitResult =
                [allowed |-> TRUE,
                 remaining |-> RATE_LIMIT_MAX_REQUESTS - (IF earlier = 0 THEN 1 ELSE earlier),
                 resetTime |-> RATE_LIMIT_WINDOW_MS]

NextOrder ==
    \/ PostFront
    \/ PostRoute
    \/ CallIssue
    \/ CallFail
    \/ CallSucceed
    \/ Extract
    \/ Validate
    \/ RespondRoutingError
    \/ RespondGuidance
    \/ PostDispatch

SpecOrder == InitOrder /\ [][NextOrder]_vars

----------------------------------------------------------------------------
(* The cascade of routeQuery (Spec) *)

\* C1: while no completion call has returned, the calls issued are a prefix of
\* the (credential, model) pairs in credential-major order, one call per pair;
\* the cascade ends in no error but 'All keys and models failed', and it does
\* so exactly when the call of the last pair has failed, whatever the classes
\* of the failures were.
C1_EveryPairInOrderBeforeExhaustion ==
    (apiKeys # <<>> /\ okLog = <<>>) =>
        LET k == Len(MODEL_FALLBACK_LIST)
            n == Len(apiKeys)
        IN  /\ Len(callLog) <= n * k
            /\ \A j \in 1..Len(callLog) :
                  callLog[j] = [key |-> apiKeys[((j - 1) \div k) + 1],
                                model |-> MODEL_FALLBACK_LIST[((j - 1) % k) + 1]]
            /\ routed.kind # "instr"
            /\ routed.kind = "error" => routed.message = ERR_EXHAUSTED
            /\ routed.kind = "error" <=> (Len(callLog) = n * k /\ inflight = <<>>)

\* three credentials, nine failed calls, the last of a class that is neither
\* quota nor model-not-found, and the request answered
C1_ExhaustedAfterNinePairs ==
    /\ Len(apiKeys) = 3
    /\ okLog = <<>>
    /\ Len(callLog) = 9
    /\ lastError.kind = "OTHER"
    /\ routed.kind = "error"
    /\ routed.message = ERR_EXHAUSTED
    /\ pc = "done"

\* C2: the cascade reports 'All keys and models failed' only if no completion
\* call of the invocation returned, whatever the text of a returned call.
C2_ExhaustionOnlyIfEveryCallFailed ==
    (routed.kind = "error" /\ routed.message = ERR_EXHAUSTED) => okLog = <<>>

\* one credential, one call, which returned the empty text: the cascade
\* reports that every key and model failed
C2_ExhaustedAfterEmptyCompletion ==
    /\ Len(apiKeys) = 1
    /\ callLog = <<[key |-> apiKeys[1], model |-> MODEL_FALLBACK_LIST[1]]>>
    /\ okLog = <<[text |-> <<>>, at |-> 1]>>
    /\ routed.kind = "error"
    /\ routed.message = ERR_EXHAUSTED

\* C3: once a completion call has returned, it is the last call issued, none
\* is in flight, and when extraction starts it reads the text of that call.
C3_FirstSuccessEndsTheCascade ==
    okLog # <<>> =>
        /\ Len(callLog) = okLog[1].at
        /\ inflight = <<>>
        /\ pc = "extract" => text = okLog[1].text

\* the first call returned the empty text and a call to the next credential
\* followed
C3_CallAfterEmptyCompletion ==
    /\ okLog # <<>>
    /\ okLog[1] = [text |-> <<>>, at |-> 1]
    /\ Len(callLog) = 2
    /\ callLog[2].key = apiKeys[2]

----------------------------------------------------------------------------
(* Extraction, validation and the endpoint's use of the instruction        *)
(* (SpecRoute)                                                             *)

\* C4: when routeQuery has returned an instruction whose insufficientInfo is
\* true, neither getWeather nor handleDatabaseOperation has been called, the
\* collection is as it was, and the response once given is the guidance message.
C4_InsufficientInfoIsNeverDispatched ==
    (routed.kind = "instr" /\ routed.instr.insufficientInfo = Bool(TRUE)) =>
        /\ toolCalls = <<>>
        /\ lastCall = NoCall
        /\ store = InitialStore
        /\ pc = "done" => (response.status = 200 /\ response.kind = "guidance")

\* the provider flagged a database instruction as incomplete: answered with
\* guidance
C4_GuidanceForFlaggedDatabaseInstruction ==
    /\ pc = "done"
    /\ routed.kind = "instr"
    /\ body.insufficientInfo = Bool(TRUE)
    /\ routed.instr.insufficientInfo = Bool(TRUE)
    /\ routed.instr.tool = Str(Literal.database)
    /\ Truthy(routed.instr.action)
    /\ ~Truthy(routed.instr.guidedResponse)
    /\ response.kind = "guidance"

\* C5: an instruction routeQuery returns with insufficientInfo other than true
\* has the tool weather or database and an action that is neither absent, null
\* nor empty.
C5_ReturnedInstructionHasToolAndAction ==
    (routed.kind = "instr" /\ routed.instr.insufficientInfo # Bool(TRUE)) =>
        /\ routed.instr.tool \in {Str(Literal.weather), Str(Literal.database)}
        /\ routed.instr.action \notin {Undef, Null, Str(<<>>)}
        /\ Truthy(routed.instr.action)

\* the provider left insufficientInfo out and the instruction passed validation
C5_ValidatedWithoutFlag ==
    /\ routed.kind = "instr"
    /\ body.insufficientInfo = Undef
    /\ routed.instr.insufficientInfo = Undef
    /\ routed.instr.tool = Str(Literal.database)
    /\ routed.instr.action = Str(Literal.delete)
    /\ pc = "done"

\* C6: when the text parses to an object whose insufficientInfo is not true and
\* the object is incomplete (tool absent or neither weather nor database, or
\* action absent, or a weather instruction with neither location nor city),
\* routeQuery raises no error: it returns the instruction with insufficientInfo
\* true and missingInfo set, naming the location in the weather case, and no
\* tool is called.
C6_IncompleteInstructionIsGuidanceNotError ==
    LET got == extract(text, body)
        p == got.instr
        badTool == ~Truthy(p.tool)
                      \/ p.tool \notin {Str(Literal.weather), Str(Literal.database)}
        noAction == ~Truthy(p.action)
        noPlace == /\ p.tool = Str(Literal.weather)
                   /\ ~Truthy(Prop(p.parameters, "location"))
                   /\ ~Truthy(Prop(p.parameters, "city"))
    IN  (/\ pc \in {"respond", "done"}
         /\ got.kind = "instr"
         /\ p.insufficientInfo # Bool(TRUE)
         /\ (badTool \/ noAction \/ noPlace)) =>
            /\ routed.kind = "instr"
            /\ routed.instr.insufficientInfo = Bool(TRUE)
            /\ routed.instr.missingInfo.t = "string"
            /\ Truthy(routed.instr.missingInfo)
            /\ (~badTool /\ ~noAction) =>
                  seqIncludes(routed.instr.missingInfo.v, "location")
            /\ toolCalls = <<>>
            /\ lastCall = NoCall

\* a weather instruction with an action, an unset flag and no location, answered
\* with guidance
C6_WeatherWithoutLocation ==
    /\ pc = "done"
    /\ extract(text, body).kind = "instr"
    /\ body.tool = Str(Literal.weather)
    /\ body.action = Str(Sample.check)
    /\ body.insufficientInfo = Bool(FALSE)
    /\ body.parameters = Obj(EmptyParams)
    /\ routed.kind = "instr"
    /\ routed.instr.missingInfo = Str(Literal.missingLocation)
    /\ response.kind = "guidance"

\* C7: after extraction, routeQuery has failed with 'no JSON found' exactly
\* when the fence-stripped text has no "{" followed by a "}", and with 'Failed
\* to parse' exactly when it has one and the text from its first "{" to its
\* last "}" is not valid JSON; extraction fails in no other way (the only
\* other error is the TypeError of validation), and a failed request is
\* answered 500 without a tool call.
C7_TwoExtractionFailures ==
    pc \in {"validate", "respond", "done"} =>
        LET s == jsonTextOf(text)
            opens == {i \in 1..Len(s) : s[i] = "{"}
            closes == {i \in 1..Len(s) : s[i] = "}"}
            located == \E i \in opens : \E j \in closes : i < j
            inner == IF located
                     THEN SubSeq(s, SetMin(opens) + 1, SetMax(closes) - 1)
                     ELSE <<>>
            members == SelectSeq(inner, LAMBDA c : c \notin {" ", "\n", "\t"})
            valid == members = <<>> \/ members = <<"B">>
        IN  /\ (routed.kind = "error" /\ routed.message = ERR_NO_JSON) <=> ~located
            /\ (routed.kind = "error" /\ routed.message = ERR_PARSE)
                  <=> (located /\ ~valid)
            /\ routed.kind = "error" =>
                  /\ routed.message \in {ERR_NO_JSON, ERR_PARSE, ERR_TYPE}
                  /\ toolCalls = <<>>
                  /\ lastCall = NoCall
                  /\ store = InitialStore
                  /\ pc = "done" => response.status = 500

\* a text whose braces hold a stray closing brace, answered 500
C7_MalformedSpanIsFatal ==
    /\ pc = "done"
    /\ text = <<"{", "}", "}">>
    /\ routed.kind = "error"
    /\ routed.message = ERR_PARSE
    /\ response.status = 500

\* C8: a JSON object text yields the same parsed instruction, the object it
\* denotes, whether the completion gives it bare, inside a json-tagged fence,
\* inside an untagged fence, or with prose around the fence.
C8_FencesDoNotChangeTheInstruction ==
    \A kind \in {"none", "json", "json-spaces", "json-tight", "bare", "prose"} :
        \A j \in JsonObjectTexts :
            (text = Wrap(kind, j) /\ pc \in {"validate", "respond", "done"}) =>
                /\ routed.kind = "error" => routed.message = ERR_TYPE
                /\ pc = "validate" =>
                      /\ routed.kind = "parsed"
                      /\ routed.instr = IF seqIncludes(j, "B") THEN body
                                        ELSE EmptyObject

\* the object of a json-tagged fence, extracted
C8_ExtractedFromJsonFence ==
    /\ pc = "validate"
    /\ text = <<FENCE, "json", "\n", "{", "B", "}", "\n", FENCE>>
    /\ routed.kind = "parsed"
    /\ routed.instr = body
    /\ body.tool = Str(Literal.weather)

----------------------------------------------------------------------------
(* The queries of the database controller (SpecDb) *)

\* C9: a call whose entity is null or a wildcard token (one of record,
\* records, database, databases, all, everything, data, as written in any
\* letter case or after normalization) sends a query with no predicate on the
\* entity field, whichever operation it is.
C9_WildcardEntityHasNoEntityPredicate ==
    LET e == lastCall.entity
        tokens == {Literal.record, Literal.records, Literal.database,
                   Literal.databases, Literal.all, Literal.everything,
                   Literal.data}
        wildcard == \/ e = Null
                    \/ /\ e.t = "string"
                       /\ \/ toLowerCase(e.v) \in tokens
                          \/ normalizeEntity(e).v \in tokens
    IN  (lastCall # NoCall /\ lastQuery.issued /\ wildcard) =>
            \A i \in 1..Len(lastQuery.preds) :
                lastQuery.preds[i][1] # Literal.entity

\* a count on entity record: the query filters on entity == records
C9_CountFiltersOnWildcard ==
    /\ lastCall # NoCall
    /\ lastCall.action = Str(Literal.count)
    /\ lastCall.entity = Str(Literal.record)
    /\ lastQuery.issued
    /\ lastQuery.preds = << <<Literal.entity, "==", Str(Literal.records)>> >>

\* C10: the query of an update or a delete is the entity predicate, left out
\* for a wildcard or null entity, followed by the equality predicate of the
\* first key of the filters other than entity when there is one, and it is
\* limited to one document.
C10_UpdateDeleteQueryShape ==
    LET e == lastCall.entity
        tokens == {Literal.record, Literal.records, Literal.database,
                   Literal.databases, Literal.all, Literal.everything,
                   Literal.data}
        wildcard == \/ e = Null
                    \/ toLowerCase(e.v) \in tokens
                    \/ normalizeEntity(e).v \in tokens
        given == Prop(lastCall.parameters, "filters")
        pairs == IF given.t = "object" THEN given.v ELSE <<>>
        others == {i \in 1..Len(pairs) : pairs[i][1] # Literal.entity}
        entityPart == IF wildcard THEN <<>>
                      ELSE << <<Literal.entity, "==", normalizeEntity(e)>> >>
        filterPart == IF others = {} THEN <<>>
                      ELSE << <<pairs[SetMin(others)][1], "==",
                                pairs[SetMin(others)][2]>> >>
    IN  (/\ lastCall # NoCall
         /\ lastQuery.issued
         /\ toLowerCase(lastCall.action.v)
               \in {Literal.modify, Literal.update, Literal.edit,
                    Literal.delete, Literal.remove}) =>
            /\ lastQuery.limit = 1
            /\ lastQuery.preds = entityPart \o filterPart
            /\ Len(lastQuery.preds) <= 2

\* delete on entity record with filters {name: X}: one predicate, name == X,
\* limit 1, and the matching record is gone
C10_DeleteRecordByName ==
    /\ lastCall # NoCall
    /\ lastCall.action = Str(Literal.delete)
    /\ lastCall.entity = Str(Literal.record)
    /\ Prop(lastCall.parameters, "filters") = Obj(<< <<Sample.name, Sample.X>> >>)
    /\ lastQuery = Query(<< <<Sample.name, "==", Sample.X>> >>, 1)
    /\ dbResult.kind = "ok"
    /\ Cardinality(store) = Cardinality(InitialStore) - 1

----------------------------------------------------------------------------
(* The effects of the database controller on the collection (SpecDb) *)

C12_CreatedEntityIsNormalizedNoun ==
    \A d \in store :
        (d.id \notin {p.id : p \in prevStore}) =>
            d.f[Literal.entity] = normalizeEntity(lastCall.entity)

\* the caller created a products record with a payload that has an entity key:
\* the stored tag is the payload's value
C12_PayloadOverridesEntity ==
    /\ lastCall # NoCall
    /\ lastCall.action = Str(Literal.add)
    /\ lastCall.entity = Str(Sample.products)
    /\ dbResult.kind = "ok"
    /\ \E d \in store :
          /\ d.id \notin {p.id : p \in prevStore}
          /\ d.f[Literal.entity] = Str(Sample.email)

\* C13: every document of the collection has the entity tag it was created
\* with, and its id: no two documents share an id and each id is one that a
\* create assigned.
C13_EntityAndIdNeverChange ==
    /\ \A d \in store :
          /\ d.id \in DOMAIN born
          /\ d.f[Literal.entity] = born[d.id].entity
    /\ Cardinality({d.id : d \in store}) = Cardinality(store)

\* an update whose payload has an entity key: the document keeps its id and
\* has the payload's tag in place of the one it was created with
C13_UpdateRetagsRecord ==
    /\ lastCall # NoCall
    /\ lastCall.action = Str(Literal.update)
    /\ dbResult.kind = "ok"
    /\ dbResult.message = "Successfully updated the"
    /\ \E d \in store : \E p \in prevStore :
          /\ d.id = p.id
          /\ p.f[Literal.entity] = born[d.id].entity
          /\ d.f[Literal.entity] = Str(Sample.email)
          /\ born[d.id].entity # Str(Sample.email)

\* C14: every document has the createdAt it was created with; a successful
\* create or update leaves the document it wrote with updatedAt equal to the
\* time of the call.
C14_CreatedAtOnceUpdatedAtRefreshed ==
    /\ \A d \in store : d.f[Literal.createdAt] = born[d.id].createdAt
    /\ (/\ lastCall # NoCall
        /\ dbResult.kind = "ok"
        /\ dbResult.message \in {"Successfully added a new",
                                 "Successfully updated the"}) =>
           /\ store # prevStore
           /\ \A d \in store \ prevStore : d.f[Literal.updatedAt] = Date(clock - 1)
           /\ dbResult.message = "Successfully added a new" =>
                 \A d \in store \ prevStore :
                    d.f[Literal.createdAt] = Date(clock - 1)

\* an update whose payload has a createdAt key: the document's createdAt is
\* the payload's value, its updatedAt the time of the call
C14_UpdateRewritesCreatedAt ==
    /\ lastCall # NoCall
    /\ lastCall.action = Str(Literal.update)
    /\ dbResult.message = "Successfully updated the"
    /\ \E d \in store :
          /\ d.id \in {p.id : p \in prevStore}
          /\ d.f[Literal.createdAt] = Str(<<"2", "0", "2", "0">>)
          /\ born[d.id].createdAt \in {Date(1), Date(2)}
          /\ d.f[Literal.updatedAt] = Date(clock - 1)

\* C15: a dispatch adds a record only if its action is a create verb and
\* removes one only if its action is a delete verb, never more than one
\* record, and never both; read, count, update and every other action leave
\* the set of stored records as it was.
C15_GrowsByCreateShrinksByDelete ==
    LET now == {d.id : d \in store}
        before == {d.id : d \in prevStore}
        verb == toLowerCase(lastCall.action.v)
    IN  lastCall # NoCall =>
           /\ Cardinality(now \ before) <= 1
           /\ Cardinality(before \ now) <= 1
           /\ now \ before # {} =>
                 /\ lastCall.action.t = "string"
                 /\ verb \in {Literal.add, Literal.create}
                 /\ before \subseteq now
           /\ before \ now # {} =>
                 /\ lastCall.action.t = "string"
                 /\ verb \in {Literal.delete, Literal.remove}
                 /\ now \subseteq before

\* a successful add: the collection is the one before plus one record
C15_OneMoreAfterCreate ==
    /\ lastCall # NoCall
    /\ lastCall.action = Str(Literal.add)
    /\ dbResult.kind = "ok"
    /\ Cardinality(store) = Cardinality(prevStore) + 1
    /\ prevStore \subseteq store

\* C16: a create whose data is absent, null or an empty mapping, sent to an
\* initialised store, fails with the need-more-details error and leaves the
\* collection and the id counter as they were.
C16_EmptyCreateFailsWithoutWrite ==
    LET data == paramOr(lastCall.parameters, "data")
        verb == toLowerCase(lastCall.action.v)
    IN  (/\ lastCall # NoCall
         /\ lastCall.action.t = "string"
         /\ verb \in {Literal.add, Literal.create}
         /\ lastCall.fault # "not-ready"
         /\ data \in {Null, Undef} \/ (data.t = "object" /\ Len(data.v) = 0)) =>
            /\ dbResult = Failure("Failed to add record",
                                  "To add a new, I need more details.")
            /\ store = prevStore
            /\ lastQuery = NoQuery

\* add with parameters {} (data absent, so the default {} is taken)
C16_CreateWithoutData ==
    /\ lastCall # NoCall
    /\ lastCall.action = Str(Literal.add)
    /\ lastCall.parameters = Obj(EmptyParams)
    /\ lastCall.fault = "none"
    /\ dbResult.kind = "error"
    /\ dbResult.detail = "To add a new, I need more details."
    /\ store = prevStore

----------------------------------------------------------------------------
(* The queries of the read and count paths (SpecQuery) *)

\* C17: a count call that the store answers sends the predicate list the read
\* path builds for the same entity and the same filters, without a limit.
C17_CountAppliesReadPredicates ==
    (/\ lastCall # NoCall
     /\ lastCall.action = Str(Literal.count)
     /\ lastCall.fault = "none") =>
        /\ lastQuery.issued
        /\ lastQuery.limit = NoLimit
        /\ lastQuery.preds =
              displayQuery(lastCall.entity, paramOr(lastCall.parameters, "filters"),
                           DISPLAY_LIMIT, clock - 1).preds

\* count of products with filters {minPrice: 100}: the query compares the
\* field minPrice for equality, where the read path asks price >= 100
C17_CountTakesMinKeyAsField ==
    /\ lastCall # NoCall
    /\ lastCall.action = Str(Literal.count)
    /\ lastCall.entity = Str(Sample.products)
    /\ lastCall.fault = "none"
    /\ lastQuery.issued
    /\ lastQuery.preds =
          << <<Literal.entity, "==", Str(Sample.products)>>,
             <<Sample.minPrice, "==", Num(100)>> >>
    /\ displayQuery(lastCall.entity, paramOr(lastCall.parameters, "filters"),
                    DISPLAY_LIMIT, clock - 1).preds =
          << <<Literal.entity, "==", Str(Sample.products)>>,
             <<Sample.price, ">=", Num(100)>> >>

\* C18: in the query of a read call, the predicate of a filter key that
\* contains min or max in any case is a range predicate on the lower-cased key
\* without those substrings, >= when the key contains min and <= otherwise,
\* against the value of the key; filters {minPrice: 100} on products give the
\* entity predicate and (price, >=, 100) and nothing else.
C18_MinMaxKeyIsOneRangePredicate ==
    LET filters == paramOr(lastCall.parameters, "filters")
        keys == IF Truthy(filters)
                THEN SelectSeq(mapKeys(filters), LAMBDA k : k # Literal.entity)
                ELSE <<>>
        offset == Len(entityPreds(lastCall.entity))
        hasMin(k) == includes(toLowerCase(k), Literal.min)
        hasMax(k) == includes(toLowerCase(k), Literal.max)
    IN  (/\ lastCall # NoCall
         /\ lastCall.action = Str(Literal.display)
         /\ lastCall.fault = "none") =>
            /\ lastQuery.issued
            /\ Len(lastQuery.preds) = offset + Len(keys)
            /\ \A i \in 1..Len(keys) :
                  (hasMin(keys[i]) \/ hasMax(keys[i])) =>
                     /\ lastQuery.preds[offset + i] =
                           <<toLowerCase(stripMinMax(keys[i])),
                             IF hasMin(keys[i]) THEN ">=" ELSE "<=",
                             mapGet(filters, keys[i])>>
                     /\ lastQuery.preds[offset + i][1] = Sample.price
            /\ (/\ lastCall.entity = Str(Sample.products)
                /\ filters = Obj(<< <<Sample.minPrice, Num(100)>> >>)) =>
                  lastQuery.preds =
                     << <<Literal.entity, "==", Str(Sample.products)>>,
                        <<Sample.price, ">=", Num(100)>> >>

\* a read of products with filters {minPrice: 100} has sent price >= 100
C18_ReadProductsFromMinPrice ==
    /\ lastCall # NoCall
    /\ lastCall.action = Str(Literal.display)
    /\ lastCall.entity = Str(Sample.products)
    /\ paramOr(lastCall.parameters, "filters") =
          Obj(<< <<Sample.minPrice, Num(100)>> >>)
    /\ lastCall.fault = "none"
    /\ lastQuery.preds[2] = <<Sample.price, ">=", Num(100)>>

\* C19: the query of a read call has, after the entity predicate, as many
\* predicates as the filter mapping has keys, one fewer when entity is a key;
\* they are the predicates of the other keys in key order, so the key entity
\* gives none and no key gives two.
C19_OnePredicatePerNonEntityKey ==
    LET filters == paramOr(lastCall.parameters, "filters")
        all == IF Truthy(filters) THEN mapKeys(filters) ELSE <<>>
        hasEntity == \E i \in 1..Len(all) : all[i] = Literal.entity
        others == SelectSeq(all, LAMBDA k : k # Literal.entity)
        offset == Len(entityPreds(lastCall.entity))
    IN  (/\ lastCall # NoCall
         /\ lastCall.action = Str(Literal.display)
         /\ lastCall.fault = "none") =>
            /\ lastQuery.issued
            /\ Len(lastQuery.preds) - offset =
                  Len(all) - (IF hasEntity THEN 1 ELSE 0)
            /\ \A i \in 1..Len(others) :
                  lastQuery.preds[offset + i] = displayPred(filters, others[i], clock - 1)

\* a read whose filters are {entity: products, name: X}: one filter predicate
C19_EntityKeyDropped ==
    /\ lastCall # NoCall
    /\ lastCall.action = Str(Literal.display)
    /\ lastCall.entity = Null
    /\ lastCall.fault = "none"
    /\ paramOr(lastCall.parameters, "filters") =
          Obj(<< <<Literal.entity, Str(Sample.products)>>,
                 <<Sample.name, Sample.X>> >>)
    /\ lastQuery.preds = << <<Sample.name, "==", Sample.X>> >>

----------------------------------------------------------------------------
(* Entity normalization (SpecNormalize) *)

\* C20: normalizing a normalized entity name gives it back, for the name of
\* every call; the name in the entity predicate a read sent is a fixed point
\* of normalizeEntity.
C20_NormalizeEntityIdempotent ==
    lastCall # NoCall =>
       /\ normalizeEntity(normalizeEntity(lastCall.entity)) =
             normalizeEntity(lastCall.entity)
       /\ \A i \in 1..Len(lastQuery.preds) :
             lastQuery.preds[i][1] = Literal.entity =>
                normalizeEntity(lastQuery.preds[i][3]) = lastQuery.preds[i][3]

\* a read of " Ys": the query asks for the entity ys
C20_MixedCasePaddedPlural ==
    /\ lastCall # NoCall
    /\ lastCall.entity = Str(<<" ", "Y", "s">>)
    /\ lastQuery.issued
    /\ lastQuery.preds = << <<Literal.entity, "==", Str(<<"y", "s">>)>> >>

----------------------------------------------------------------------------
(* The switch of handleDatabaseOperation and the errors of the store        *)
(* (SpecVerb)                                                               *)

\* C21: the outcome of a call the store answers is that of the one operation
\* its verb names in any case: add/create give the outcome of a create,
\* modify/update/edit of an update, delete/remove of a delete, count of a
\* count, and display/list/show and every other verb that of a read, which
\* leaves the collection as it was.
C21_VerbSelectsOneOperation ==
    LET verb == toLowerCase(lastCall.action.v)
        filters == paramOr(lastCall.parameters, "filters")
        m == dbResult.message
    IN  (lastCall # NoCall /\ lastCall.fault = "none") =>
           CASE verb \in {<<"a", "d", "d">>, <<"c", "r", "e", "a", "t", "e">>} ->
                  /\ m \in {"Successfully added a new", "Failed to add record"}
                  /\ lastQuery = NoQuery
                  /\ prevStore \subseteq store
             [] verb \in {<<"m", "o", "d", "i", "f", "y">>,
                          <<"u", "p", "d", "a", "t", "e">>,
                          <<"e", "d", "i", "t">>} ->
                  /\ m \in {"No update data provided.",
                            "No found matching criteria.",
                            "Successfully updated the"}
                  /\ lastQuery.issued => lastQuery.limit = 1
                  /\ {d.id : d \in store} = {d.id : d \in prevStore}
             [] verb \in {<<"d", "e", "l", "e", "t", "e">>,
                          <<"r", "e", "m", "o", "v", "e">>} ->
                  /\ m \in {"No found matching criteria.",
                            "Successfully deleted the"}
                  /\ lastQuery = deleteQuery(lastCall.entity, filters)
                  /\ store \subseteq prevStore
                  /\ (m = "Successfully deleted the") = (store # prevStore)
             [] verb = <<"c", "o", "u", "n", "t">> ->
                  /\ m = "Count"
                  /\ lastQuery.issued /\ lastQuery.limit = NoLimit
                  /\ store = prevStore
             [] OTHER ->
                  /\ m \in {"No records found", "Found records"}
                  /\ lastQuery.issued /\ lastQuery.limit = DISPLAY_LIMIT
                  /\ store = prevStore

\* the verb purge, which the switch does not know, read the records
C21_UnknownVerbReads ==
    /\ lastCall # NoCall
    /\ lastCall.action = Str(Sample.purge)
    /\ lastCall.fault = "none"
    /\ dbResult.kind = "ok"
    /\ dbResult.message = "Found records"
    /\ store = prevStore

\* C22: when the store fails a call that reached it, the error of the call is
\* the authentication message for an authentication failure and the
\* composite-index message for failed-precondition, whatever the operation;
\* any other store error is the operation's own message with the store's
\* error as detail.
C22_StoreErrorsAreResignaled ==
    LET verb == toLowerCase(lastCall.action.v)
        data == paramOr(lastCall.parameters, "data")
        emptyData == ~Truthy(data) \/ Len(data.v) = 0
        isCreate == verb \in {Literal.add, Literal.create}
        isUpdate == verb \in {Literal.modify, Literal.update, Literal.edit}
        isDelete == verb \in {Literal.delete, Literal.remove}
        isCount == verb = Literal.count
        reached == /\ lastCall.fault \notin {"none", "not-ready"}
                   /\ ~((isCreate \/ isUpdate) /\ emptyData)
        prefix == CASE isCreate -> "Failed to add record"
                    [] isUpdate -> "Failed to modify record"
                    [] isDelete -> "Failed to delete record"
                    [] isCount -> "Failed to count records"
                    [] OTHER -> "Failed to display records"
    IN  (lastCall # NoCall /\ reached) =>
           /\ store = prevStore
           /\ dbResult =
                 CASE lastCall.fault = "unauthenticated" ->
                        Failure("Firebase authentication failed.", "none")
                   [] lastCall.fault = "failed-precondition" ->
                        Failure("Query requires a composite index.", "none")
                   [] OTHER -> Failure(prefix, lastCall.fault)

\* a count the store refused for authentication: the error is the count
\* message around the store's own error
C22_CountWrapsAuthenticationFailure ==
    /\ lastCall # NoCall
    /\ lastCall.action = Str(Literal.count)
    /\ lastCall.fault = "unauthenticated"
    /\ dbResult = Failure("Failed to count records", "unauthenticated")

----------------------------------------------------------------------------
(* The responses of the query endpoint (SpecRoute) *)

\* C23: the error text of a response is the same whatever message the failed
\* provider call or store call carried: after a routing failure it is the
\* fixed routing text, and after a store failure no part of it is the error
\* the store raised.
C23_ErrorTextHidesRawError ==
    /\ (response.kind = "error" /\ routed.kind = "error") =>
          /\ response.error = "Failed to process query. Please try again."
          /\ response.detail = "none"
    /\ (/\ response.kind = "error"
        /\ lastCall # NoCall
        /\ lastCall.fault \notin {"none", "not-ready"}) =>
          response.detail # <<dbResult.message, lastCall.fault>>

\* a delete the store failed with the error unavailable: the response text
\* ends with that error
C23_StoreMessageInResponse ==
    /\ response.kind = "error"
    /\ response.status = 500
    /\ lastCall # NoCall
    /\ lastCall.action = Str(Literal.delete)
    /\ lastCall.fault = "unavailable"
    /\ response.detail = <<"Failed to delete record", "unavailable">>

----------------------------------------------------------------------------
(* The calls of one invocation of routeQuery (Spec) *)

\* C24: a completion call is issued only when no call is outstanding, one
\* call per step, and it is then the outstanding call, for the pair the loops
\* are at.
C24_OneOutstandingCall ==
    [][Len(callLog') > Len(callLog) =>
          /\ inflight = <<>>
          /\ Len(callLog') = Len(callLog) + 1
          /\ inflight' = <<ki, mi>>]_vars

\* the second call of an invocation is outstanding, the first having failed
C24_SecondCallAfterFirstFailed ==
    /\ pc = "cascade"
    /\ Len(callLog) = 2
    /\ inflight = <<1, 2>>
    /\ lastError # NoError

\* C26: the credentials the cascade iterates are the trimmed non-empty entries
\* of the comma-separated primary credential and then of the fallback
\* credentials, each once, in the order of their first occurrence; no pair of
\* credential and model is called twice in one invocation.
C26_CredentialsDistinctInOrder ==
    LET parts == IF Truthy(env.primary) THEN split(env.primary.v, ",") ELSE <<>>
        raw == [i \in 1..Len(parts) |-> trim(parts[i])]
                  \o [i \in 1..Len(env.fallbacks) |-> trim(env.fallbacks[i])]
        firstAt(k) == SetMin({i \in 1..Len(raw) : raw[i] = k})
    IN  (pc # "start" /\ ~(pc = "done" /\ routed = NotRouted)) =>
           /\ \A i, j \in 1..Len(apiKeys) : apiKeys[i] = apiKeys[j] => i = j
           /\ \A i \in 1..Len(apiKeys) : apiKeys[i] # <<>>
           /\ {apiKeys[i] : i \in 1..Len(apiKeys)} =
                 {raw[i] : i \in 1..Len(raw)} \ {<<>>}
           /\ \A i, j \in 1..Len(apiKeys) :
                 i < j => firstAt(apiKeys[i]) < firstAt(apiKeys[j])
           /\ \A i, j \in 1..Len(callLog) : callLog[i] = callLog[j] => i = j

\* GEMINI_API_KEY = "A, B,,A" with fallbacks B and a blank: the keys are A, B
\* and all six pairs have been called
C26_RepeatedCredentialCalledOnce ==
    /\ env.primary = Str(<<"A", ",", " ", "B", ",", ",", "A">>)
    /\ apiKeys = << <<"A">>, <<"B">> >>
    /\ Len(callLog) = 2 * Len(MODEL_FALLBACK_LIST)

----------------------------------------------------------------------------
(* Concurrent calls of the database controller (SpecRace) *)

\* C25: when two updates that selected the same record have both returned,
\* both report success, and the record has, for every field of the payload
\* written last, that payload's value, for every other field of the payload
\* written first, that one's value, updatedAt of the last write, and the
\* value it had before in every other field.
C25_LastWriteWins ==
    LET a == tasks["a"]
        b == tasks["b"]
        last == IF a.wroteAt > b.wroteAt THEN a ELSE b
        first == IF a.wroteAt > b.wroteAt THEN b ELSE a
        keysOf(call) == {call.data.v[i][1] : i \in 1..Len(call.data.v)}
    IN  (/\ DOMAIN tasks = Tasks
         /\ \A t \in Tasks : /\ tasks[t].phase = "returned"
                             /\ tasks[t].action = Str(Literal.update)
                             /\ tasks[t].doc # NoDoc
         /\ a.doc.id = b.doc.id) =>
            /\ \A t \in Tasks : /\ tasks[t].result.kind = "ok"
                                /\ tasks[t].result.message = "Successfully updated the"
            /\ a.wroteAt # b.wroteAt
            /\ \E d \in store : \E old \in InitialStore :
                  /\ d.id = a.doc.id
                  /\ old.id = d.id
                  /\ \A e \in store : e.id = d.id => e = d
                  /\ DOMAIN d.f = DOMAIN old.f \cup keysOf(a) \cup keysOf(b)
                  /\ \A k \in DOMAIN d.f :
                        d.f[k] =
                           IF k = Literal.updatedAt THEN Date(last.wroteAt)
                           ELSE IF k \in keysOf(last) THEN mapGet(last.data, k)
                           ELSE IF k \in keysOf(first) THEN mapGet(first.data, k)
                           ELSE old.f[k]

\* two updates of the same record, price 9 read first and written last over
\* price 7
C25_LaterWriteOfEarlierRead ==
    /\ DOMAIN tasks = Tasks
    /\ tasks["a"].phase = "returned" /\ tasks["b"].phase = "returned"
    /\ tasks["a"].data = Obj(<< <<Sample.price, Num(7)>> >>)
    /\ tasks["b"].data = Obj(<< <<Sample.price, Num(9)>>, <<Sample.check, Bool(TRUE)>> >>)
    /\ tasks["a"].doc.id = 1 /\ tasks["b"].doc.id = 1
    /\ tasks["b"].doc.f[Sample.price] = Num(5)
    /\ tasks["b"].wroteAt > tasks["a"].wroteAt
    /\ tasks["a"].wroteAt > 0
    /\ \E d \in store : d.id = 1 /\ d.f[Sample.price] = Num(9)

\* C30: the calls that report a successful delete are as many as the records
\* removed from the collection, and an update that reports success wrote to a
\* record that was in the collection at its write.
C30_DeleteReportsMatchRemovals ==
    DOMAIN tasks = Tasks =>
       /\ Cardinality({t \in Tasks :
                          /\ tasks[t].phase = "returned"
                          /\ tasks[t].result.kind = "ok"
                          /\ tasks[t].result.message = "Successfully deleted the"})
             = Cardinality(InitialStore) - Cardinality(store)
       /\ \A t \in Tasks :
             (/\ tasks[t].phase = "returned"
              /\ tasks[t].result.kind = "ok"
              /\ tasks[t].result.message = "Successfully updated the") =>
                 /\ tasks[t].wroteAt > 0
                 /\ (tasks[t].wroteAt = clock - 1) =>
                       /\ tasks[t].doc.id \in {d.id : d \in prevStore}
                       /\ tasks[t].doc.id \in {d.id : d \in store}

\* two deletes that selected record 1: both report success, one record is gone
C30_TwoDeletesOneRecord ==
    /\ DOMAIN tasks = Tasks
    /\ \A t \in Tasks :
          /\ tasks[t].action = Str(Literal.delete)
          /\ tasks[t].phase = "returned"
          /\ tasks[t].doc.id = 1
          /\ tasks[t].result.message = "Successfully deleted the"
    /\ Cardinality(store) = Cardinality(InitialStore) - 1

----------------------------------------------------------------------------
(* The rate limiter (SpecLimit) *)

\* C27: in the window that starts with a call of an email and ends at the
\* resetTime that call was given, at most RATE_LIMIT_MAX_REQUESTS calls of the
\* email are allowed, whatever calls other emails make.
C27_AtMostTenAllowedPerWindow ==
    \A email \in Emails : windows[email].allowed <= RATE_LIMIT_MAX_REQUESTS

\* an eleventh call of one email is allowed before the resetTime of its
\* window, its entry having left the cache
C27_EleventhCallAllowed ==
    \E email \in Emails :
       /\ windows[email].allowed = RATE_LIMIT_MAX_REQUESTS + 1
       /\ nowMs <= windows[email].resetTime
       /\ rateLimitResult.allowed
       /\ rateLimitResult.remaining = RATE_LIMIT_MAX_REQUESTS - 1
       /\ cache[Len(cache)].key = email

----------------------------------------------------------------------------
(* The request from arrival to response (SpecOrder) *)

\* C28: the remaining value of a 200 response is between 0 and
\* RATE_LIMIT_MAX_REQUESTS and is RATE_LIMIT_MAX_REQUESTS minus the count the
\* limiter holds for the user after the request.
C28_RemainingIsTenMinusCount ==
    (response.status = 200 /\ cache # <<>>) =>
       /\ response.remaining \in 0..RATE_LIMIT_MAX_REQUESTS
       /\ response.remaining =
             RATE_LIMIT_MAX_REQUESTS - cache[Len(cache)].count

\* the tenth request of a window is allowed and answered with remaining -1
C28_TenthRequestReportsMinusOne ==
    /\ response.status = 200
    /\ rateLimitResult.allowed
    /\ cache # <<>>
    /\ cache[Len(cache)].count = RATE_LIMIT_MAX_REQUESTS
    /\ rateLimitResult.remaining = 0
    /\ response.remaining = -1

\* C29: the endpoint authenticates, then checks the rate limit, then
\* validates the body, then routes, then dispatches: a 401 leaves the limiter
\* as it was, a 429 and a 400 come after the limiter has counted the request,
\* no step on arrival makes a completion call or a store operation, a request
\* answered 401, 429 or 400 has made none, the first completion call comes
\* after an allowed rate-limit check, and a tool is run only for an
\* instruction routeQuery returned.
C29_AuthenticateLimitValidateRouteDispatch ==
    [][/\ (pc = "arrived" /\ response'.status = 401) =>
             UNCHANGED <<cache, served, windows, rateLimitResult>>
       /\ (pc = "arrived" /\ response'.status \in {429, 400}) =>
             served' = served + 1
       /\ (pc = "arrived" /\ response'.status = 429) => ~rateLimitResult'.allowed
       /\ (pc = "arrived" /\ response'.status = 400) => rateLimitResult'.allowed
       /\ (pc = "arrived" /\ pc' # "done") =>
             /\ pc' = "start"
             /\ served' = served + 1
             /\ rateLimitResult'.allowed
       /\ pc = "arrived" => UNCHANGED <<callLog, toolCalls, store, lastCall, apiKeys>>
       /\ response'.status \in {401, 429, 400} =>
             /\ pc' = "done"
             /\ callLog' = <<>>
             /\ toolCalls' = <<>>
             /\ lastCall' = NoCall
             /\ store' = InitialStore
       /\ callLog' # callLog => (pc = "cascade" /\ rateLimitResult.allowed
                                   /\ toolCalls = <<>>)
       /\ toolCalls' # toolCalls => (routed.kind = "instr" /\ okLog # <<>>)
      ]_vars

\* a request without a Bearer header was answered 401, the user's count in
\* the limiter as before
C29_UnauthenticatedCostsNothing ==
    /\ pc = "done"
    /\ response.status = 401
    /\ served = RATE_LIMIT_MAX_REQUESTS - 1
    /\ cache # <<>>
    /\ cache[1].count = RATE_LIMIT_MAX_REQUESTS - 1
    /\ callLog = <<>>
    /\ toolCalls = <<>>

====
